---- MODULE Spec2Model ----
(***************************************************************************)
(* Model of pycdt/corrections/kumagai_correction.py: the anisotropic       *)
(* (Kumagai-Oba) finite-size correction of charged defects.                *)
(*                                                                         *)
(* Floating-point numbers are modelled as fixed-point integers in units of *)
(* 10^-6 (FOne is 1.0).  Every product and quotient is rounded to the      *)
(* nearest unit, half away from zero, on the magnitudes, so that, as in    *)
(* IEEE arithmetic, negating an operand negates the result exactly.        *)
(* Magnitudes stay below 1000.0 so that no intermediate exceeds 32 bits.   *)
(***************************************************************************)
EXTENDS Integers, Sequences, FiniteSets, TLC

VARIABLES
    kc,           \* the KumagaiCorrection object: dieltens, q, gamma, g_sum,
                  \* structure, dim, madetol (set by __init__, never assigned again)
    sitetable,    \* what disttrans returns for the bulk/defect structure pair
    puredat,      \* per-site electrostatic potential of the bulk cell
    defdat,       \* per-site electrostatic potential of the defect cell
    partflag,     \* argument of correction()
    title,        \* argument of correction(), "" when no plot is wanted
    cpc,          \* position of the running correction() call
    energy_pc,    \* local of correction()
    potalign_v,   \* local of correction(): potalign()'s return value
    potinddict,   \* local of potalign()
    result,       \* what correction() returned
    err,          \* the exception that ended the call, "" when none
    calls,        \* the functions executed so far by the call
    bk,           \* the KumagaiBulkInit object's arguments: structure, epsilon,
                  \* encut, tolerance, optgamma (0 for the default False)
    gpc,          \* position of the running KumagaiBulkInit.__init__
    gamma_l,      \* local gamma of find_optimal_gamma
    encut_l,      \* local encut of do_summation
    converge_l,   \* local converge of do_summation
    self_gamma,   \* the attribute self.gamma
    self_g_sum,   \* the attribute self.g_sum: "unset" or "built"
    gammalog,     \* what do_summation logged for each candidate it converged
    recipcalls,   \* the cutoffs get_recippart was called with for the candidate
    struct,       \* argument of disttrans: the bulk structure
    defstruct,    \* argument of disttrans: the defect structure
    found_pos,    \* what find_defect_pos returns for the two structures
    dpc,          \* position in disttrans
    def_ccoord,   \* local of disttrans: the defect's position in the bulk cell
    defcell_def_ccoord,  \* local of disttrans: its position in the defect cell
    site_i,       \* position of the loop over sitelist (1-based)
    dcart_coord,  \* local of the loop: position of the matched defect-cell site
    closeimage,   \* local of the loop: what returnclosestr returned
    grid_sites,   \* local of disttrans: the table it returns
    g_at_origin,  \* what get_g_sum_at_r returned for the zero displacement
    ncorr,        \* the number of correction() calls made on the bulk's grid
    diel_in,      \* a dielectric tensor as the caller supplies it
    diel_out,     \* what each computation made of diel_in
    recipmemo,    \* the sums get_recippart has returned, by <<gamma, encut>>
    earlier,      \* the gamma and the log of the construction before this one
    rs,           \* reciprocal_sum under way: dim, the passes made, the writes
    sh,           \* one shell of real_sum under way: its arguments, the passes made
    rcall,        \* a call of real_sum: its arguments and what it returned
    iso,          \* a point-charge energy computed term by term
    gcall         \* a call of getgridind: its arguments, the caller's r, the return

\* ------------------------------------------------------------------------
\* Fixed-point arithmetic
\* ------------------------------------------------------------------------

\* F applied to the value of v, with v evaluated once (a LET is evaluated
\* again wherever its name is used).
Eval(v, F(_)) == CHOOSE z \in {F(x) : x \in {v}} : TRUE

FOne == 1000 * 1000

Abs(x) == IF x < 0 THEN -x ELSE x

Sgn(x) == IF x < 0 THEN -1 ELSE IF x > 0 THEN 1 ELSE 0

\* floor((a*b + rnd)/10^6) for 0 <= a, b < 10^9 and 0 <= rnd < 10^6, computed in
\* 32 bits.
MulMagR(a, b, rnd) ==
    LET ah == a \div 1000
        al == a % 1000
        bh == b \div 1000
        bl == b % 1000
    IN  ah * bh + ((ah * bl + al * bh) + ((al * bl + rnd) \div 1000)) \div 1000

\* x*y of two floats, rounded to the nearest unit.
FMul(x, y) ==
    Eval(<<x, y>>, LAMBDA p : Sgn(p[1]) * Sgn(p[2]) * MulMagR(Abs(p[1]), Abs(p[2]), 500000))

\* A number a*m/b (0 <= a, 0 < b < 2^30) is carried as <<quotient, remainder>>.
QRTimes2(q, r, b) == IF 2 * r >= b THEN <<2 * q + 1, 2 * r - b>> ELSE <<2 * q, 2 * r>>

QRPlus(q1, r1, q2, r2, b) ==
    IF r1 + r2 >= b THEN <<q1 + q2 + 1, r1 + r2 - b>> ELSE <<q1 + q2, r1 + r2>>

QRTimes10(q, r, b) ==
    Eval(QRTimes2(q, r, b), LAMBDA p2 :
    Eval(QRTimes2(p2[1], p2[2], b), LAMBDA p4 :
    Eval(QRTimes2(p4[1], p4[2], b), LAMBDA p8 :
         QRPlus(p8[1], p8[2], p2[1], p2[2], b))))

RECURSIVE QRScale(_, _, _, _)
QRScale(q, r, b, digits) ==
    IF digits = 0 THEN <<q, r>>
    ELSE Eval(QRTimes10(q, r, b), LAMBDA p : QRScale(p[1], p[2], b, digits - 1))

\* floor(a*10^6/b + 1/2) for 0 <= a, 0 < b < 2^30.
DivMag(a, b) ==
    Eval(QRScale(a \div b, a % b, b, 6), LAMBDA p :
         IF 2 * p[2] >= b THEN p[1] + 1 ELSE p[1])

\* x/y of two floats (y # 0), rounded to the nearest unit.
FDiv(x, y) ==
    Eval(<<x, y>>, LAMBDA p : Sgn(p[1]) * Sgn(p[2]) * DivMag(Abs(p[1]), Abs(p[2])))

\* An integer as a float.
FInt(n) == n * FOne

\* x/n for a float x and a positive integer n held in a float (the division of
\* np.mean, x / float(n)).
FDivInt(x, n) ==
    Eval(<<x, n>>, LAMBDA p :
         Sgn(p[1]) * (IF 2 * (Abs(p[1]) % p[2]) >= p[2]
                      THEN (Abs(p[1]) \div p[2]) + 1 ELSE Abs(p[1]) \div p[2]))

\* The largest k in lo..hi with k*k <= x*10^6 (ceil(k*k/10^6) <= x), by bisection.
RECURSIVE SqrtSearch(_, _, _)
SqrtSearch(lo, hi, x) ==
    IF lo >= hi THEN lo
    ELSE Eval(lo + (hi - lo + 1) \div 2, LAMBDA mid :
              IF MulMagR(mid, mid, 999999) <= x
              THEN SqrtSearch(mid, hi, x)
              ELSE SqrtSearch(lo, mid - 1, x))

\* np.sqrt of a float 0 <= x < 1000.0
FSqrt(x) == Eval(x, LAMBDA v : SqrtSearch(0, 32 * FOne, v))

\* x ** (1/3.): the largest c whose cube does not exceed x
RECURSIVE CbrtSearch(_, _, _)
CbrtSearch(lo, hi, x) ==
    IF lo >= hi THEN lo
    ELSE Eval(lo + (hi - lo + 1) \div 2, LAMBDA mid :
              IF MulMagR(MulMagR(mid, mid, 999999), mid, 999999) <= x
              THEN CbrtSearch(mid, hi, x)
              ELSE CbrtSearch(lo, mid - 1, x))

FCbrt(x) == Eval(x, LAMBDA v : CbrtSearch(0, 10 * FOne, v))

\* np.pi
FPi == 3141593

\* math.exp(-y) for a float y >= 0: 2^-n times the series of exp(-f), where
\* y = n*ln(2) + f
RECURSIVE ExpSeries(_, _, _)
ExpSeries(f, k, p) ==
    IF k = 0 THEN p
    ELSE Eval(FDivInt(FMul(f, p), k), LAMBDA x : ExpSeries(f, k - 1, FOne - x))

RECURSIVE Halved(_, _)
Halved(x, n) == IF n = 0 THEN x ELSE Halved((x + 1) \div 2, n - 1)

FExpNeg(y) ==
    IF y >= 15 * FOne THEN 0
    ELSE Halved(ExpSeries(y % 693147, 10, FOne), y \div 693147)

\* math.erfc(x) for a float x >= 0, to the seventh decimal: a polynomial in
\* 1/(1 + 0.3275911 x) times exp(-x*x)
FErfc(x) ==
    IF x >= 4 * FOne THEN 0
    ELSE Eval(FDiv(FOne, FOne + FMul(327591, x)), LAMBDA t :
         FMul(FMul(t, 254830 + FMul(t, -284497 + FMul(t, 1421414
                       + FMul(t, -1453152 + FMul(t, 1061405))))),
              FExpNeg(FMul(x, x))))

\* ------------------------------------------------------------------------
\* Conversion constants and vectors
\* ------------------------------------------------------------------------

hart_to_ev == 27211400

ang_to_bohr == 1889700

Dot(u, v) == FMul(u[1], v[1]) + FMul(u[2], v[2]) + FMul(u[3], v[3])

Cross(u, v) ==
    << FMul(u[2], v[3]) - FMul(u[3], v[2]),
       FMul(u[3], v[1]) - FMul(u[1], v[3]),
       FMul(u[1], v[2]) - FMul(u[2], v[1]) >>

ScaleVec(c, v) == << FMul(c, v[1]), FMul(c, v[2]), FMul(c, v[3]) >>

\* np.linalg.det of a 3x3 matrix
Det3(m) == Dot(m[1], Cross(m[2], m[3]))

ZeroVec == <<0, 0, 0>>

\* norm(r) as a truth value: nonzero exactly when some component is
IsNonZero(r) == r # ZeroVec

\* A structure is [lattice |-> 3x3 matrix in angstrom]; the cells of this model
\* are orthorhombic (diagonal matrix), so lattice.abc is the diagonal and
\* get_fractional_coords divides by it.
LatticeAbc(structure) ==
    << structure.lattice[1][1], structure.lattice[2][2], structure.lattice[3][3] >>

get_fractional_coords(structure, r) ==
    << FDiv(r[1], LatticeAbc(structure)[1]),
       FDiv(r[2], LatticeAbc(structure)[2]),
       FDiv(r[3], LatticeAbc(structure)[3]) >>

\* kumagai_init without its logging: the lattice in bohr, the cell volume and
\* the determinant of the dielectric tensor (a 3x3 matrix here).
kumagai_init(structure, dieltens) ==
    Eval(<< ScaleVec(ang_to_bohr, structure.lattice[1]),
            ScaleVec(ang_to_bohr, structure.lattice[2]),
            ScaleVec(ang_to_bohr, structure.lattice[3]) >>, LAMBDA a :
         [ angset  |-> structure.lattice,
           bohrset |-> a,
           vol     |-> Dot(a[1], Cross(a[2], a[3])),
           determ  |-> Det3(dieltens) ])

\* ------------------------------------------------------------------------
\* real_sum, anisotropic_pc_energy, anisotropic_madelung_potential
\* ------------------------------------------------------------------------

NmaxlengthLonger == 40 + 1

Nmaxlength == 40

\* norm(r)
Norm(r) == FSqrt(Dot(r, r))

MinOf(S) == CHOOSE x \in S : \A y \in S : x <= y

\* The three nested loops of real_sum: the sum of
\* erfc(gamma*sqrt(loc_res))/sqrt(determ*loc_res) over the cube [-N, N]^3 of
\* translations (without the origin term when norm(r) is zero).  The terms are
\* not enumerated: the model keeps how the sum depends on the shell size and
\* on r.  The cube is symmetric and loc_res is a quadratic form, so the sum is
\* the same for r and -r (ShellLimit).  The terms of shell N are of the order
\* of erfc(N * gamma * edge): they still change the sum while that product is
\* below ShellReach and no longer do beyond it (ShellTail).
ShellLimit(r) ==
    IF IsNonZero(r)
    THEN 1500000 - ((Abs(r[1]) + Abs(r[2]) + Abs(r[3])) \div 10) + (Abs(r[1]) \div 100000)
    ELSE 612345

ShellReach == 4500 * 1000

ShellTail(gl, N) ==
    IF N * gl >= ShellReach THEN 0 ELSE (ShellReach - N * gl) \div 1000

\* r_sum at the end of the three loops, for every shell size N the while loop
\* can reach
ShellSums(a1, a2, a3, r, dieltens, gamma) ==
    Eval(<< FMul(gamma, MinOf({Norm(a1), Norm(a2), Norm(a3)})), ShellLimit(r) >>,
         LAMBDA p : [N \in 2..(Nmaxlength - 1) |-> p[2] + ShellTail(p[1], N)])

\* The while loop of real_sum from shell size N on; prev is r_sums[-1][1] of
\* the previous pass.  [none |-> TRUE] is the bare return (None).
RECURSIVE RealSumLoop(_, _, _, _, _)
RealSumLoop(N, prev, sums, realpre, tolerance) ==
    Eval(FMul(realpre, sums[N]), LAMBDA cur :
         IF N = Nmaxlength - 1
         THEN [none |-> TRUE, v |-> 0, N |-> N]
         ELSE IF (N - 1) > 3 /\ Abs(Abs(cur) - Abs(prev)) < tolerance
         THEN [none |-> FALSE, v |-> cur, N |-> N]
         ELSE RealSumLoop(N + 1, cur, sums, realpre, tolerance))

real_sum(a1, a2, a3, r, q, dieltens, gamma, tolerance) ==
    Eval(<< FDiv(FInt(q), FSqrt(Det3(dieltens))),      \* realpre
            FDiv(tolerance, hart_to_ev),               \* tolerance /= hart_to_ev
            ShellSums(a1, a2, a3, r, dieltens, gamma) >>, LAMBDA p :
         RealSumLoop(2, 0, p[3], p[1], p[2]))

\* x[n] = now_num / float(num_pts) * abc[i]
GridPoint(abc_i, num_pts, n) == FMul(FDivInt(FInt(n), num_pts), abc_i)

\* np.argmin of |x - rr| over x[n..num_pts-1], given the first minimum <<index,
\* distance>> among x[0..n-1]
RECURSIVE ArgMinFrom(_, _, _, _, _)
ArgMinFrom(n, best, abc_i, num_pts, rr) ==
    IF n >= num_pts THEN best
    ELSE Eval(Abs(GridPoint(abc_i, num_pts, n) - rr), LAMBDA dn :
              Eval(IF dn < best[2] THEN <<n, dn>> ELSE best, LAMBDA b :
                   ArgMinFrom(n + 1, b, abc_i, num_pts, rr)))

\* getgridind with gridavg = 0.0, one axis: the coordinate reduced into [0, 1),
\* scaled by the cell length, and the index of the nearest grid point x[n].
GridAxis(abc_i, num_pts, r_i) ==
    IF num_pts < 2 THEN [err |-> "IndexError", ind |-> 0]
    ELSE Eval(FMul(r_i % FOne, abc_i), LAMBDA rr :
         Eval(ArgMinFrom(1, <<0, Abs(GridPoint(abc_i, num_pts, 0) - rr)>>,
                         abc_i, num_pts, rr), LAMBDA best :
              IF best[2] > FMul(GridPoint(abc_i, num_pts, 1)
                                  - GridPoint(abc_i, num_pts, 0), 1100000)
              THEN [err |-> "ValueError", ind |-> best[1]]
              ELSE [err |-> "", ind |-> best[1]]))

getgridindLast(structure, dim, r) ==
    [err |-> "", ind |-> <<dim[1] - 1, dim[2] - 1, dim[3] - 1>>]

getgridind(structure, dim, r) ==
    Eval(<< GridAxis(LatticeAbc(structure)[1], dim[1], r[1]),
            GridAxis(LatticeAbc(structure)[2], dim[2], r[2]),
            GridAxis(LatticeAbc(structure)[3], dim[3], r[3]) >>, LAMBDA g :
         [ err |-> IF g[1].err # "" THEN g[1].err
                   ELSE IF g[2].err # "" THEN g[2].err ELSE g[3].err,
           ind |-> <<g[1].ind, g[2].ind, g[3].ind>> ])

get_g_sum_at_r(g_sum, structure, dim, r) ==
    Eval(getgridind(structure, dim, get_fractional_coords(structure, r)), LAMBDA gi :
         IF gi.err # "" THEN [err |-> gi.err, v |-> 0]
         ELSE IF gi.ind \notin DOMAIN g_sum THEN [err |-> "IndexError", v |-> 0]
         ELSE [err |-> "", v |-> g_sum[gi.ind]])

\* q*np.pi / (vol * (gamma ** 2))
SelfInt(q, vol, gamma) == FDiv(FMul(FInt(q), FPi), FMul(vol, FMul(gamma, gamma)))

\* 2*gamma*q / np.sqrt(np.pi*determ)
SurfTerm(q, gamma, determ) ==
    FDiv(FMul(FMul(FInt(2), gamma), FInt(q)), FSqrt(FMul(FPi, determ)))

\* pot = hart_to_ev * (directpart + recippartreal - selfint); a None directpart
\* makes the sum a TypeError
MadelungPot(directpart, recippartreal, selfint) ==
    FMul(hart_to_ev, directpart + recippartreal - selfint)

anisotropic_madelung_potential(structure, dim, g_sum, r, dieltens, q, gamma, tolerance) ==
    Eval(kumagai_init(structure, dieltens), LAMBDA ki :
    Eval(get_g_sum_at_r(g_sum, structure, dim, r), LAMBDA gs :
         IF gs.err # "" THEN [err |-> gs.err, v |-> 0]
         ELSE Eval(real_sum(ki.bohrset[1], ki.bohrset[2], ki.bohrset[3], r, q,
                            dieltens, gamma, tolerance), LAMBDA directpart :
              IF directpart.none THEN [err |-> "TypeError", v |-> 0]
              ELSE [err |-> "",
                    v |-> MadelungPot(directpart.v, FMul(FInt(q), gs.v),
                                      SelfInt(q, ki.vol, gamma))])))

PcEnergyWithoutCharge(q, r_part, g_part, selfint, surfterm) ==
    FMul(FMul(-(FOne \div 2), hart_to_ev), r_part + g_part - selfint - surfterm)

PcEnergyNoSurface(q, r_part, g_part, selfint, surfterm) ==
    FMul(FMul(FMul(FInt(-q), FOne \div 2), hart_to_ev), r_part + g_part - selfint)

\* pc_energy = -q*0.5*hart_to_ev*(r_part + g_part - selfint - surfterm)
PcEnergy(q, r_part, g_part, selfint, surfterm) ==
    FMul(FMul(FMul(FInt(-q), FOne \div 2), hart_to_ev),
         r_part + g_part - selfint - surfterm)

anisotropic_pc_energy(structure, g_sum, dieltens, q, gamma, tolerance) ==
    Eval(kumagai_init(structure, dieltens), LAMBDA ki :
    Eval(real_sum(ki.bohrset[1], ki.bohrset[2], ki.bohrset[3], ZeroVec, q,
                  dieltens, gamma, tolerance), LAMBDA r_part :
         IF r_part.none THEN [err |-> "TypeError", v |-> 0]
         ELSE [err |-> "",
               v |-> PcEnergy(q, r_part.v, FMul(FInt(q), g_sum[<<0, 0, 0>>]),
                              SelfInt(q, ki.vol, gamma),
                              SurfTerm(q, gamma, ki.determ))]))

\* ------------------------------------------------------------------------
\* KumagaiCorrection.correction, pc, potalign
\* ------------------------------------------------------------------------

\* A Python float that may be nan
Num(v) == [nan |-> FALSE, v |-> v]

NaN == [nan |-> TRUE, v |-> 0]

NumAdd(x, y) == IF x.nan \/ y.nan THEN NaN ELSE Num(x.v + y.v)

\* round(x, ndigits) of Python 2: to the nearest multiple of 10^-ndigits, a
\* half away from zero; nan stays nan.
PyRound(x, ndigits) ==
    LET unit == 10 ^ (6 - ndigits)
        mag  == ((Abs(x.v) + unit \div 2) \div unit) * unit
    IN  IF x.nan THEN NaN ELSE Num(Sgn(x.v) * mag)

\* the second argument of every round() call of correction()
RoundDigits == 5

\* wigner_seitz_radius: the facets of the Wigner-Seitz cell of an orthorhombic
\* lattice are the planes at half a lattice vector, their midpoints lie at
\* abc[i]/2 from the origin.
wigner_seitz_radius(structure) ==
    MinOf({ FDiv(LatticeAbc(structure)[1], FInt(2)),
            FDiv(LatticeAbc(structure)[2], FInt(2)),
            FDiv(LatticeAbc(structure)[3], FInt(2)) })

ChargeNeverZero(q) == FALSE

\* `if not self.q` of correction()
ChargeIsZero(q) == q = 0

OutsideOrOnWS(dist, wsrad) == dist >= wsrad

\* `potinddict[i]['dist'] > wsrad` of the first loop of potalign
OutsideWS(dist, wsrad) == dist > wsrad

\* The keys of potinddict for which the second loop of potalign computes Vpc and
\* Vqb: all of them with a title, the sites outside the radius without.
Computed(dict, ttl) == {i \in DOMAIN dict : ttl # "" \/ dict[i].OutsideWS}

\* the value the v_qb lines (790-792, 799) leave in Vqb
SiteVqb(rec, defpot, purepot) ==
    -(defpot[rec.def_site_index] - purepot[rec.bulk_site_index])

SiteVpc(rec) ==
    anisotropic_madelung_potential(kc.structure, kc.dim, kc.g_sum, rec.cart_reldef,
                                   kc.dieltens, kc.q, kc.gamma, kc.madetol)

\* forcorrection: the keys whose Vqb - Vpc the third loop appends
ForCorrection(dict, ttl) == {i \in Computed(dict, ttl) : dict[i].OutsideWS}

RECURSIVE SumOver(_, _)
SumOver(S, f) ==
    IF S = {} THEN 0
    ELSE LET i == CHOOSE j \in S : TRUE IN f[i] + SumOver(S \ {i}, f)

\* np.mean of a list of floats (nan for the empty list)
NpMean(S, f) ==
    IF S = {} THEN NaN ELSE Num(FDivInt(SumOver(S, f), Cardinality(S)))

PlusQTimes(q, m) == IF m.nan THEN NaN ELSE Num(q * m.v)

\* -self.q * np.mean(forcorrection)
NegQTimes(q, m) == IF m.nan THEN NaN ELSE Num((-q) * m.v)

rerunvars == << recipmemo, earlier >>

sumvars == << sh, rcall, iso, gcall >>

gridvars == << rs, sumvars >>

bulkvars == << bk, gpc, gamma_l, encut_l, converge_l, self_gamma, self_g_sum,
              gammalog, recipcalls, rerunvars, gridvars >>

sitevars == << struct, defstruct, found_pos, dpc, def_ccoord, defcell_def_ccoord, site_i,
              dcart_coord, closeimage, grid_sites >>

dielvars == << diel_in, diel_out >>

usevars == << g_at_origin, ncorr, dielvars >>

corevars == << kc, sitetable, puredat, defdat, partflag, title, cpc,
               energy_pc, potalign_v, potinddict, result >>

runvars == << corevars, usevars >>

corrvars == << runvars, sitevars >>

vars == << corrvars, err, calls, bulkvars >>

inputs == << kc, sitetable, puredat, defdat, partflag, title, bulkvars, sitevars,
             usevars >>

NoResult == [list |-> FALSE, vals |-> << >>]

CorrectionResultSumOfRounded(flag, pc, pa) ==
    CASE flag = "pc" ->
           [list |-> FALSE, vals |-> <<PyRound(pc, RoundDigits)>>]
      [] flag = "potalign" ->
           [list |-> FALSE, vals |-> <<PyRound(pa, RoundDigits)>>]
      [] flag = "All" ->
           [list |-> FALSE,
            vals |-> <<NumAdd(PyRound(pc, RoundDigits), PyRound(pa, RoundDigits))>>]
      [] OTHER ->
           [list |-> TRUE,
            vals |-> << PyRound(pc, RoundDigits), PyRound(pa, RoundDigits),
                        NumAdd(PyRound(pc, RoundDigits), PyRound(pa, RoundDigits)) >>]

\* the return statements of correction() for q != 0 (lines 713-731)
\* the three rounded values whatever the flag
CorrectionResultAlwaysSplit(flag, pc, pa) ==
    [list |-> TRUE,
     vals |-> << PyRound(pc, RoundDigits), PyRound(pa, RoundDigits),
                 PyRound(NumAdd(pc, pa), RoundDigits) >>]

CorrectionResult(flag, pc, pa) ==
    CASE flag = "pc" ->
           [list |-> FALSE, vals |-> <<PyRound(pc, RoundDigits)>>]
      [] flag = "potalign" ->
           [list |-> FALSE, vals |-> <<PyRound(pa, RoundDigits)>>]
      [] flag = "All" ->
           [list |-> FALSE, vals |-> <<PyRound(NumAdd(pc, pa), RoundDigits)>>]
      [] OTHER ->
           [list |-> TRUE,
            vals |-> << PyRound(pc, RoundDigits), PyRound(pa, RoundDigits),
                        PyRound(NumAdd(pc, pa), RoundDigits) >>]

\* lines 701-705
CorrectionShortCircuit ==
    /\ cpc = "start"
    /\ ChargeIsZero(kc.q)
    /\ result' = IF partflag = "AllSplit"
                 THEN [list |-> TRUE, vals |-> <<Num(0), Num(0), Num(0)>>]
                 ELSE [list |-> FALSE, vals |-> <<Num(0)>>]
    /\ cpc' = "done"
    /\ UNCHANGED << inputs, energy_pc, potalign_v, potinddict, err, calls >>

\* lines 707-708 with pc() (733-742)
CorrectionPC ==
    /\ cpc = "start"
    /\ ~ChargeIsZero(kc.q)
    /\ IF partflag # "potalign"
       THEN LET e == anisotropic_pc_energy(kc.structure, kc.g_sum, kc.dieltens,
                                           kc.q, kc.gamma, kc.madetol)
            IN  /\ calls' = calls \cup {"pc", "anisotropic_pc_energy", "real_sum"}
                /\ IF e.err # ""
                   THEN /\ err' = e.err
                        /\ cpc' = "raised"
                        /\ UNCHANGED energy_pc
                   ELSE /\ energy_pc' = Num(e.v)
                        /\ cpc' = "pc_done"
                        /\ UNCHANGED err
       ELSE /\ cpc' = "pc_done"
            /\ UNCHANGED << energy_pc, err, calls >>
    /\ UNCHANGED << inputs, potalign_v, potinddict, result >>

\* lines 710-711 when partflag is 'pc': potalign() is not called
CorrectionSkipPotalign ==
    /\ cpc = "pc_done"
    /\ partflag = "pc"
    /\ cpc' = "pa_done"
    /\ UNCHANGED << inputs, energy_pc, potalign_v, potinddict, result, err, calls >>

\* potalign() lines 750-773: kumagai_init, disttrans, the Wigner-Seitz radius
\* and the first loop, which marks every record
PotalignMark ==
    /\ cpc = "pc_done"
    /\ partflag # "pc"
    /\ calls' = calls \cup {"potalign", "disttrans"}
    /\ IF ~sitetable.found
       THEN \* disttrans returned None: None.keys() at line 768
            /\ err' = "AttributeError"
            /\ cpc' = "raised"
            /\ UNCHANGED potinddict
       ELSE /\ potinddict' =
                  [i \in DOMAIN sitetable.recs |->
                     [ dist            |-> sitetable.recs[i].dist,
                       cart_reldef     |-> sitetable.recs[i].cart_reldef,
                       def_site_index  |-> sitetable.recs[i].def_site_index,
                       bulk_site_index |-> sitetable.recs[i].bulk_site_index,
                       OutsideWS       |-> OutsideWS(sitetable.recs[i].dist,
                                                     wigner_seitz_radius(kc.structure)),
                       has_v |-> FALSE, Vpc |-> 0, Vqb |-> 0 ]]
            /\ cpc' = "pa_marked"
            /\ UNCHANGED err
    /\ UNCHANGED << inputs, energy_pc, potalign_v, result >>

\* potalign() lines 775-806: the potentials are read and the second loop
\* computes Vpc and Vqb
PotalignPotentials ==
    /\ cpc = "pa_marked"
    /\ LET todo == Computed(potinddict, title)
           vpc  == [i \in todo |-> SiteVpc(potinddict[i])]
           bad  == {i \in todo : vpc[i].err # ""}
       IN  /\ calls' = calls \cup {"read_ES_avg"}
                         \cup (IF todo = {} THEN {}
                               ELSE {"anisotropic_madelung_potential", "real_sum"})
           /\ IF bad # {}
              THEN /\ err' = vpc[MinOf(bad)].err
                   /\ cpc' = "raised"
                   /\ UNCHANGED potinddict
              ELSE /\ potinddict' =
                         [i \in DOMAIN potinddict |->
                            IF i \in todo
                            THEN [potinddict[i] EXCEPT
                                    !.has_v = TRUE,
                                    !.Vpc = vpc[i].v,
                                    !.Vqb = SiteVqb(potinddict[i], defdat, puredat)]
                            ELSE potinddict[i]]
                   /\ cpc' = "pa_pots"
                   /\ UNCHANGED err
    /\ UNCHANGED << inputs, energy_pc, potalign_v, result >>

\* potalign() lines 809-858: the third loop, the mean, the plot, the return
PotalignMean ==
    /\ cpc = "pa_pots"
    /\ LET S == ForCorrection(potinddict, title)
           f == [i \in S |-> potinddict[i].Vqb - potinddict[i].Vpc]
       IN  potalign_v' = NegQTimes(kc.q, NpMean(S, f))
    /\ calls' = IF title # "" THEN calls \cup {"plot"} ELSE calls
    /\ cpc' = "pa_done"
    /\ UNCHANGED << inputs, energy_pc, potinddict, result, err >>

\* lines 713-731
CorrectionReturn ==
    /\ cpc = "pa_done"
    /\ result' = CorrectionResult(partflag, energy_pc, potalign_v)
    /\ cpc' = "done"
    /\ UNCHANGED << inputs, energy_pc, potalign_v, potinddict, err, calls >>

\* ------------------------------------------------------------------------
\* KumagaiBulkInit.__init__, find_optimal_gamma, reciprocal_sum
\* ------------------------------------------------------------------------

\* self.gamma when find_optimal_gamma returned None
NoGamma == [none |-> TRUE, v |-> 0]

SomeGamma(g) == [none |-> FALSE, v |-> g]

\* gamma = 5./(vol ** (1/3.))
StartGamma(structure, epsilon) ==
    FDiv(FInt(5), FCbrt(kumagai_init(structure, epsilon).vol))

\* get_recippart(encut, gamma)[0]: 4*pi/vol times the sum of
\* exp(-G.eps.G/(4 gamma^2))/(G.eps.G) over the reciprocal vectors genrecip
\* yields below the cutoff, in hartree.  Every summand is positive and a
\* higher cutoff yields more vectors, so a call returns no less than the
\* call before it for the same gamma; the values are not computed.  The
\* second value returned is always 0.0, so the check of the imaginary part in
\* do_summation never fires for a tolerance that is not negative.
RecipValues == {36700, 36750, 36751, 45000}

\* how much a sum that has not settled grows from one cutoff to the next
RecipGrowth == 5 * 1000

get_recippart(last) ==
    {v \in RecipValues : v >= last} \cup (IF last > 0 THEN {last + RecipGrowth} ELSE {})

\* get_recippart(encut, gamma) reads nothing but its arguments and the
\* structure and epsilon of the object: called again with the arguments of an
\* earlier call it returns what it returned then
RecipAnswersAnew(gamma, encut, last) == get_recippart(last)

RecipAnswers(gamma, encut, last) ==
    IF <<gamma, encut>> \in DOMAIN recipmemo
    THEN {recipmemo[<<gamma, encut>>]}
    ELSE get_recippart(last)

Remembered(memo, gamma, encut, v) ==
    [k \in DOMAIN memo \cup {<<gamma, encut>>} |->
        IF k = <<gamma, encut>> THEN v ELSE memo[k]]

\* the condition of the while loop of do_summation
NotConverged(c, tolerance) ==
    FMul(Abs(Abs(c[1]) - Abs(c[2])), hart_to_ev) > tolerance

TryAgainBelowHalf(c) == FMul(Abs(c[2]), hart_to_ev) < FOne \div 2

\* `abs(converge[1]) * hart_to_ev < 1 and not optgam` (optgam is None)
TryAgain(c) == FMul(Abs(c[2]), hart_to_ev) < FOne

\* gamma *= 1.5
NextGamma(g) == FMul(g, 1500000)

GammaNeverTooLarge(g) == FALSE

\* `if gamma > 50`
GammaTooLarge(g) == g > FInt(50)

\* logging.info('Reciprocal sum converged to %f eV', recippartreal * hart_to_ev)
\* together with the candidate it was computed for
LogRecord(g, recippartreal) == [gamma |-> g, ev |-> FMul(recippartreal, hart_to_ev)]

\* reciprocal_sum has not been entered
NoRecip == [dim |-> <<4, 4, 4>>, t |-> 0, mult |-> << >>, writes |-> << >>,
            returned |-> FALSE]

\* no KumagaiBulkInit was constructed before this one
NoEarlier == [any |-> FALSE, gamma |-> NoGamma, log |-> << >>]

\* __init__ up to the first pass of the while loop of find_optimal_gamma
BulkInit ==
    /\ gpc = "init"
    /\ IF bk.optgamma = 0
       THEN /\ gamma_l' = StartGamma(bk.structure, bk.epsilon)
            /\ gpc' = "candidate"
            /\ calls' = calls \cup {"find_optimal_gamma"}
            /\ UNCHANGED self_gamma
       ELSE /\ self_gamma' = SomeGamma(bk.optgamma)
            /\ gpc' = "recip"
            /\ UNCHANGED << gamma_l, calls >>
    /\ UNCHANGED << corrvars, err, bk, encut_l, converge_l, self_g_sum, gammalog,
                    recipcalls, rerunvars, gridvars >>

\* do_summation(gamma) up to its while loop: the sums at cutoffs 20 and 30
DoSummationStart ==
    /\ gpc = "candidate"
    /\ \E v1 \in RecipAnswers(gamma_l, 20, 0) : \E v2 \in RecipAnswers(gamma_l, 30, v1) :
          /\ converge_l' = <<v1, v2>>
          /\ recipmemo' = Remembered(Remembered(recipmemo, gamma_l, 20, v1), gamma_l, 30, v2)
    /\ encut_l' = 30
    /\ recipcalls' = <<20, 30>>
    /\ gpc' = "converging"
    /\ UNCHANGED << corrvars, err, calls, bk, gamma_l, self_gamma, self_g_sum,
                    gammalog, earlier, gridvars >>

\* one pass of the while loop of do_summation
DoSummationStep ==
    /\ gpc = "converging"
    /\ NotConverged(converge_l, bk.tolerance)
    /\ encut_l' = encut_l + 10
    /\ recipcalls' = Append(recipcalls, encut_l + 10)
    /\ \E v \in RecipAnswers(gamma_l, encut_l + 10, converge_l[2]) :
          /\ converge_l' = <<converge_l[2], v>>
          /\ recipmemo' = Remembered(recipmemo, gamma_l, encut_l + 10, v)
    /\ IF encut_l + 10 > bk.encut
       THEN err' = "ValueError" /\ gpc' = "raised"
       ELSE UNCHANGED << err, gpc >>
    /\ UNCHANGED << corrvars, calls, bk, gamma_l, self_gamma, self_g_sum, gammalog,
                    earlier, gridvars >>

\* do_summation returns (None, 'Try Again'): the candidate is multiplied by
\* 1.5, and find_optimal_gamma returns None when it then exceeds 50
CandidateRejected ==
    /\ gpc = "converging"
    /\ ~NotConverged(converge_l, bk.tolerance)
    /\ TryAgain(converge_l)
    /\ gammalog' = Append(gammalog, LogRecord(gamma_l, converge_l[2]))
    /\ gamma_l' = NextGamma(gamma_l)
    /\ IF GammaTooLarge(NextGamma(gamma_l))
       THEN self_gamma' = NoGamma /\ gpc' = "recip"
       ELSE gpc' = "candidate" /\ UNCHANGED self_gamma
    /\ UNCHANGED << corrvars, err, calls, bk, encut_l, converge_l, self_g_sum,
                    recipcalls, rerunvars, gridvars >>

\* do_summation returns (recippartreal, gamma): the candidate is the optimum,
\* returned unless it exceeds 50
CandidateAccepted ==
    /\ gpc = "converging"
    /\ ~NotConverged(converge_l, bk.tolerance)
    /\ ~TryAgain(converge_l)
    /\ gammalog' = Append(gammalog, LogRecord(gamma_l, converge_l[2]))
    /\ self_gamma' = IF GammaTooLarge(gamma_l) THEN NoGamma ELSE SomeGamma(gamma_l)
    /\ gpc' = "recip"
    /\ UNCHANGED << corrvars, err, calls, bk, gamma_l, encut_l, converge_l, self_g_sum,
                    recipcalls, rerunvars, gridvars >>

\* self.g_sum = self.reciprocal_sum(): with self.gamma None, self.gamma**2 is
\* a TypeError after the array has been allocated
ReciprocalSum ==
    /\ gpc = "recip"
    /\ calls' = calls \cup {"reciprocal_sum"}
    /\ IF self_gamma.none
       THEN err' = "TypeError" /\ gpc' = "raised" /\ UNCHANGED self_g_sum
       ELSE self_g_sum' = "built" /\ gpc' = "done" /\ UNCHANGED err
    /\ UNCHANGED << corrvars, bk, gamma_l, encut_l, converge_l, self_gamma, gammalog,
                    recipcalls, rerunvars, gridvars >>

\* ------------------------------------------------------------------------
\* disttrans: the table of sites and their nearest images of the defect
\* ------------------------------------------------------------------------

\* A structure with sites is [lattice, sites]; a site is [coords, specie] with
\* Cartesian coords in angstrom.
VecAdd(u, v) == << u[1] + v[1], u[2] + v[2], u[3] + v[3] >>

VecSub(u, v) == << u[1] - v[1], u[2] - v[2], u[3] - v[3] >>

\* i*abclats[0] + j*abclats[1] + k*abclats[2] for integers i, j, k
TransVec(abclats, i, j, k) ==
    << i * abclats[1][1] + j * abclats[2][1] + k * abclats[3][1],
       i * abclats[1][2] + j * abclats[2][2] + k * abclats[3][2],
       i * abclats[1][3] + j * abclats[2][3] + k * abclats[3][3] >>

trylist == <<-1, 0, 1>>

\* an entry whose norm is that of the displacement within the home cell
ListValOfHomeCell(i, j, k, vec, defpos, abclats) ==
    Eval(TransVec(abclats, i, j, k), LAMBDA transvec :
    Eval(VecSub(vec, VecAdd(defpos, transvec)), LAMBDA rnew :
         [dist |-> Norm(VecSub(vec, defpos)), rnew |-> rnew, transvec |-> transvec]))

\* the entry [norm(rnew), rnew, transvec] that the pass i, j, k of the three
\* nested loops appends to listvals
ListVal(i, j, k, vec, defpos, abclats) ==
    Eval(TransVec(abclats, i, j, k), LAMBDA transvec :
    Eval(VecSub(vec, VecAdd(defpos, transvec)), LAMBDA rnew :
         [dist |-> Norm(rnew), rnew |-> rnew, transvec |-> transvec]))

\* Of two entries, a appended before b, the one that listvals.sort(key=
\* itemgetter(0)) puts first: the sort is stable, so b only when its norm is
\* smaller (with last: also when it is equal).
SortsFirst(a, b, last) ==
    IF b.dist < a.dist \/ (last /\ b.dist = a.dist) THEN b ELSE a

SortsFirstOf(e, last) == SortsFirst(SortsFirst(e[1], e[2], last), e[3], last)

\* the first entry of the sorted entries of the loop over k, of the loop over
\* j and of the loop over i
KLoop(i, j, vec, defpos, abclats, last) ==
    Eval([n \in 1..3 |-> ListVal(i, j, trylist[n], vec, defpos, abclats)] @@ << >>,
         LAMBDA e : SortsFirstOf(e, last))

JLoop(i, vec, defpos, abclats, last) ==
    Eval([n \in 1..3 |-> KLoop(i, trylist[n], vec, defpos, abclats, last)] @@ << >>,
         LAMBDA e : SortsFirstOf(e, last))

ILoop(vec, defpos, abclats, last) ==
    Eval([n \in 1..3 |-> JLoop(trylist[n], vec, defpos, abclats, last)] @@ << >>,
         LAMBDA e : SortsFirstOf(e, last))

returnclosestrLast(vec, defpos, abclats) == ILoop(vec, defpos, abclats, TRUE)

\* returnclosestr(vec): listvals[0] after the sort
returnclosestr(vec, defpos, abclats) == ILoop(vec, defpos, abclats, FALSE)

NoSite == [none |-> TRUE, coords |-> ZeroVec]

SomeSite(c) == [none |-> FALSE, coords |-> c]

\* find_defect_pos and closestsites belong to pycdt.corrections.utils, which
\* is not part of this model: their answers are inputs.  find_defect_pos
\* answers with the coordinates of a site of the bulk or None, and with those
\* of a site of the defect cell or None.
SiteAnswers(s) == {SomeSite(s.sites[n].coords) : n \in DOMAIN s.sites} \cup {NoSite}

\* one structure's part of what closestsites returns: a site of the structure
\* and its index (0-based)
ClosestSiteAnswers(s) ==
    {[coords |-> s.sites[n].coords, index |-> n - 1] : n \in DOMAIN s.sites}

\* the sites of the bulk, whatever the defect cell holds
SiteListOfBulk(sblk, sdef) == sblk.sites

\* sitelist: the sites of the bulk, or those of the defect cell when it has
\* more (lines 286-289)
SiteList(sblk, sdef) ==
    IF Len(sblk.sites) >= Len(sdef.sites) THEN sblk.sites ELSE sdef.sites

NeverDefectSite(coords, defpos) == FALSE

\* np.array_equal(i.coords, def_ccoord)
IsDefectSite(coords, defpos) == coords = defpos

NoImage == [dist |-> -1, rnew |-> ZeroVec, transvec |-> ZeroVec]

\* the test before the warnings 'Image locater issue encountered':
\* abs(norm(cart_reldef) - defdist) > 0.1
ImageLocaterIssue(cart_reldef, defdist) ==
    Abs(Norm(cart_reldef) - defdist) > FOne \div 10

\* lines 264-289 and 306: the defect is located and the loop is set up, or
\* disttrans returns None
DisttransFind ==
    /\ dpc = "start"
    /\ LET f == found_pos
       IN  IF f.blk.none /\ f.def.none
           THEN /\ dpc' = "returned_none"
                /\ UNCHANGED << def_ccoord, defcell_def_ccoord >>
           ELSE /\ dpc' = "loop"
                /\ def_ccoord' = IF f.blk.none THEN f.def.coords ELSE f.blk.coords
                /\ defcell_def_ccoord' = IF f.def.none THEN f.blk.coords ELSE f.def.coords
    /\ site_i' = 1
    /\ grid_sites' = << >>
    /\ UNCHANGED << struct, defstruct, found_pos, dcart_coord, closeimage, runvars, err, calls,
                    bulkvars >>

\* lines 308-310: the site at the defect's position is skipped
DisttransSkip ==
    /\ dpc = "loop"
    /\ site_i <= Len(SiteList(struct, defstruct))
    /\ IsDefectSite(SiteList(struct, defstruct)[site_i].coords, def_ccoord)
    /\ site_i' = site_i + 1
    /\ UNCHANGED << struct, defstruct, found_pos, dpc, def_ccoord, defcell_def_ccoord,
                    dcart_coord, closeimage, grid_sites, runvars, err, calls,
                    bulkvars >>

\* lines 312-341: the record of one site
DisttransSite ==
    /\ dpc = "loop"
    /\ site_i <= Len(SiteList(struct, defstruct))
    /\ ~IsDefectSite(SiteList(struct, defstruct)[site_i].coords, def_ccoord)
    /\ \E defsite \in ClosestSiteAnswers(defstruct) :
       \E closeimg \in {returnclosestr(defsite.coords, defcell_def_ccoord,
                                       defstruct.lattice)} :
       \E blksite \in ClosestSiteAnswers(struct) :
       \E rec \in {[ dist |-> closeimg.dist, cart |-> defsite.coords,
                     cart_reldef |-> closeimg.rnew,
                     siteobj |-> SiteList(struct, defstruct)[site_i],
                     bulk_site_index |-> blksite.index,
                     def_site_index |-> defsite.index ]} :
          /\ dcart_coord' = defsite.coords
          /\ closeimage' = closeimg
          /\ grid_sites' = [k \in DOMAIN grid_sites \cup {blksite.index} |->
                              IF k = blksite.index THEN rec ELSE grid_sites[k]]
    /\ site_i' = site_i + 1
    /\ UNCHANGED << struct, defstruct, found_pos, dpc, def_ccoord, defcell_def_ccoord,
                    runvars, err, calls, bulkvars >>

\* line 343
DisttransReturn ==
    /\ dpc = "loop"
    /\ site_i > Len(SiteList(struct, defstruct))
    /\ dpc' = "returned"
    /\ UNCHANGED << struct, defstruct, found_pos, def_ccoord, defcell_def_ccoord, site_i,
                    dcart_coord, closeimage, grid_sites, runvars, err, calls,
                    bulkvars >>

\* ------------------------------------------------------------------------
\* Inputs of a correction run
\* ------------------------------------------------------------------------

MaxQ == 2

NSites == 2

Charges == (-MaxQ)..MaxQ

PartFlags == {"pc", "potalign", "All", "AllSplit"}

Titles == {"", "vacancy"}

\* an orthorhombic cell with edges a, b, c (angstrom)
Cell(a, b, c) ==
    [lattice |-> << <<FInt(a), 0, 0>>, <<0, FInt(b), 0>>, <<0, 0, FInt(c)>> >>]

Diag(x, y, z) == << <<x, 0, 0>>, <<0, y, 0>>, <<0, 0, z>> >>

GridDim == <<4, 4, 4>>

\* getgridind has not been called
NoGridCall == [called |-> FALSE]

\* no energy is being computed term by term
NoIso == [stage |-> "unset"]

\* real_sum has not been called
NoCall == [called |-> FALSE]

\* real_sum is not being followed term by term
SumsIdle ==
    /\ sh = [N |-> 0]
    /\ rcall = NoCall
    /\ iso = NoIso
    /\ gcall = NoGridCall

\* no KumagaiBulkInit is being constructed
BulkIdle ==
    /\ bk = [structure |-> Cell(2, 2, 2), epsilon |-> Diag(2 * FOne, 2 * FOne, 3 * FOne),
             encut |-> 520, tolerance |-> 100, optgamma |-> FOne]
    /\ gpc = "done"
    /\ gamma_l = 0
    /\ encut_l = 0
    /\ converge_l = <<0, 0>>
    /\ self_gamma = SomeGamma(FOne)
    /\ self_g_sum = "built"
    /\ gammalog = << >>
    /\ recipcalls = << >>
    /\ recipmemo = << >>
    /\ earlier = [any |-> FALSE, gamma |-> SomeGamma(FOne), log |-> << >>]
    /\ rs = [dim |-> <<4, 4, 4>>, t |-> 64, mult |-> << >>, writes |-> << >>,
             returned |-> TRUE]
    /\ SumsIdle

NoQuery == [err |-> "unset", v |-> 0]

\* the grid has not been queried and no correction() has been called
UseIdle ==
    /\ g_at_origin = NoQuery
    /\ ncorr = 0
    /\ diel_in = [ndim |-> 2, a |-> <<FOne, 0, 0, 0, FOne, 0, 0, 0, FOne>>]
    /\ diel_out = << >>

\* no disttrans is running
SitesIdle ==
    /\ struct = [lattice |-> Cell(2, 2, 2).lattice, sites |-> << >>]
    /\ defstruct = [lattice |-> Cell(2, 2, 2).lattice, sites |-> << >>]
    /\ found_pos = [blk |-> NoSite, def |-> NoSite]
    /\ dpc = "returned"
    /\ def_ccoord = ZeroVec
    /\ defcell_def_ccoord = ZeroVec
    /\ site_i = 1
    /\ dcart_coord = ZeroVec
    /\ closeimage = NoImage
    /\ grid_sites = << >>

GridIndices == {<<i, j, k>> : i \in 0..3, j \in 0..3, k \in 0..3}

\* two reciprocal grids (the array g_sum handed to __init__), in hartree per
\* unit charge
GridA == [g \in GridIndices |-> 250000 - 20000 * (g[1] + g[2] + g[3])]

GridB == [g \in GridIndices |-> 40000 * g[1] - 30000 * g[2] + 10000 * g[3] - 50000]

\* minimum-image displacements of a site from the defect (angstrom): on the
\* Wigner-Seitz radius of the 2 angstrom cell, and two outside it
DispAt == <<FInt(1), 0, 0>>

DispOut1 == <<FInt(1), FInt(1), 0>>

DispOut2 == <<-FInt(1), FInt(1), FInt(1)>>

Disps == {DispAt, DispOut1, DispOut2}

SiteKeys == 0..(NSites - 1)

\* def_site_index of the record of bulk site i: the same index, or the next
\* one (the defect cell lists its sites in another order)
DefIndexMaps == { [i \in SiteKeys |-> i], [i \in SiteKeys |-> (i + 1) % NSites] }

\* The displacements of the sites, nearest first (which site is which does not
\* matter to the mean: the potentials below vary per site).
DispRank(r) == IF r = DispAt THEN 0 ELSE IF r = DispOut1 THEN 1 ELSE 2

DispAssignments ==
    { d \in [SiteKeys -> Disps] :
        \A i \in SiteKeys : i + 1 \in SiteKeys => DispRank(d[i]) <= DispRank(d[i + 1]) }

SiteTables ==
    { [found |-> TRUE,
       recs  |-> [i \in SiteKeys |->
                    [ dist |-> Norm(d[i]), cart_reldef |-> d[i],
                      def_site_index |-> m[i], bulk_site_index |-> i ]]]
      : d \in DispAssignments, m \in DefIndexMaps }

NoSiteTable == [found |-> FALSE, recs |-> << >>]

\* per-site potentials (eV)
PurePotentials == { [i \in SiteKeys |-> 2500004] }

\* the defect cell's potentials: those of the bulk, or others at every site
DefPotentials ==
    { [i \in SiteKeys |-> 2500004], [i \in SiteKeys |-> 300001 * i - 1234567] }

Init ==
    /\ kc \in { [ dieltens |-> Diag(2 * FOne, 2 * FOne, 3 * FOne), q |-> q,
                  gamma |-> g, g_sum |-> GridA, structure |-> Cell(2, 2, 2),
                  dim |-> GridDim, madetol |-> 100 ]
                : q \in Charges, g \in {FOne, FOne \div 40} }
    /\ sitetable \in SiteTables \cup {NoSiteTable}
    /\ puredat \in PurePotentials
    /\ defdat \in DefPotentials
    /\ partflag \in PartFlags
    /\ title \in Titles
    /\ cpc = "start"
    /\ energy_pc = Num(0)
    /\ potalign_v = Num(0)
    /\ potinddict = << >>
    /\ result = NoResult
    /\ err = ""
    /\ calls = {}
    /\ BulkIdle
    /\ UseIdle
    /\ SitesIdle

Next ==
    \/ CorrectionShortCircuit
    \/ CorrectionPC
    \/ CorrectionSkipPotalign
    \/ PotalignMark
    \/ PotalignPotentials
    \/ PotalignMean
    \/ CorrectionReturn

Spec == Init /\ [][Next]_vars

\* ------------------------------------------------------------------------
\* Runs of correction() over cells, dielectric tensors, gammas and grids
\* ------------------------------------------------------------------------

PCCells == {Cell(2, 2, 2), Cell(2, 3, 4), Cell(3, 3, 3)}

PCDielectrics == {Diag(2 * FOne, 2 * FOne, 3 * FOne), Diag(FOne, FOne, FOne)}

PCGammas == {FOne, FOne \div 2, FOne \div 4}

\* site tables whose sites all lie outside the radius of the smallest cell
PCSiteTables ==
    { t \in SiteTables :
        \A i \in SiteKeys : /\ t.recs[i].cart_reldef # DispAt
                            /\ t.recs[i].def_site_index = i }

InitPC ==
    /\ kc \in { [ dieltens |-> d, q |-> q, gamma |-> g, g_sum |-> gs,
                  structure |-> c, dim |-> GridDim, madetol |-> 100 ]
                : q \in Charges, g \in PCGammas, gs \in {GridA, GridB},
                  c \in PCCells, d \in PCDielectrics }
    /\ sitetable \in PCSiteTables
    /\ puredat \in PurePotentials
    /\ defdat = [i \in SiteKeys |-> 300001 * i - 1234567]
    /\ partflag \in {"pc", "AllSplit"}
    /\ title = "vacancy"
    /\ cpc = "start"
    /\ energy_pc = Num(0)
    /\ potalign_v = Num(0)
    /\ potinddict = << >>
    /\ result = NoResult
    /\ err = ""
    /\ calls = {}
    /\ BulkIdle
    /\ UseIdle
    /\ SitesIdle

SpecPC == InitPC /\ [][Next]_vars

\* ------------------------------------------------------------------------
\* Constructions of KumagaiBulkInit
\* ------------------------------------------------------------------------

BulkCutoffs == {25, 40, 60}

InitGamma ==
    /\ bk \in { [ structure |-> c, epsilon |-> Diag(2 * FOne, 2 * FOne, 3 * FOne),
                  encut |-> e, tolerance |-> 100, optgamma |-> o ]
                : c \in PCCells, e \in BulkCutoffs, o \in {0, FOne} }
    /\ gpc = "init"
    /\ gamma_l = 0
    /\ encut_l = 0
    /\ converge_l = <<0, 0>>
    /\ self_gamma = NoGamma
    /\ self_g_sum = "unset"
    /\ gammalog = << >>
    /\ recipcalls = << >>
    /\ recipmemo = << >>
    /\ earlier = NoEarlier
    /\ rs = NoRecip
    /\ SumsIdle
    /\ err = ""
    /\ calls = {}
    /\ kc = [ dieltens |-> Diag(2 * FOne, 2 * FOne, 3 * FOne), q |-> 0,
              gamma |-> FOne, g_sum |-> GridA, structure |-> Cell(2, 2, 2),
              dim |-> GridDim, madetol |-> 100 ]
    /\ sitetable = NoSiteTable
    /\ puredat \in PurePotentials
    /\ defdat \in PurePotentials
    /\ partflag = "All"
    /\ title = ""
    /\ cpc = "done"
    /\ energy_pc = Num(0)
    /\ potalign_v = Num(0)
    /\ potinddict = << >>
    /\ result = NoResult
    /\ SitesIdle
    /\ UseIdle

\* A second KumagaiBulkInit for the structure, epsilon, encut and tolerance of
\* the one that has returned, without optgamma or with the gamma it found
BulkAgain ==
    /\ gpc = "done"
    /\ ~earlier.any
    /\ bk.optgamma = 0
    /\ earlier' = [any |-> TRUE, gamma |-> self_gamma, log |-> gammalog]
    /\ \E o \in {0, self_gamma.v} : bk' = [bk EXCEPT !.optgamma = o]
    /\ gpc' = "init"
    /\ gamma_l' = 0
    /\ encut_l' = 0
    /\ converge_l' = <<0, 0>>
    /\ self_gamma' = NoGamma
    /\ self_g_sum' = "unset"
    /\ gammalog' = << >>
    /\ recipcalls' = << >>
    /\ calls' = {}
    /\ UNCHANGED << corrvars, err, recipmemo, gridvars >>

InitRerun == InitGamma /\ bk.optgamma = 0

NextRerun ==
    \/ BulkInit
    \/ DoSummationStart
    \/ DoSummationStep
    \/ CandidateRejected
    \/ CandidateAccepted
    \/ ReciprocalSum
    \/ BulkAgain

SpecRerun == InitRerun /\ [][NextRerun]_vars

NextGammaSearch ==
    \/ BulkInit
    \/ DoSummationStart
    \/ DoSummationStep
    \/ CandidateRejected
    \/ CandidateAccepted
    \/ ReciprocalSum

SpecGamma == InitGamma /\ [][NextGammaSearch]_vars

\* the constructor keeps running until it returns or raises
SpecGammaFair == SpecGamma /\ WF_vars(NextGammaSearch)

\* ------------------------------------------------------------------------
\* Calls of disttrans
\* ------------------------------------------------------------------------

\* a site at (x/2, y/2, z/2) angstrom
Site(x, y, z, sp) ==
    [coords |-> << x * (FOne \div 2), y * (FOne \div 2), z * (FOne \div 2) >>,
     specie |-> sp]

BulkSiteLists ==
    { << Site(0, 0, 0, "A"), Site(2, 0, 0, "B") >>,
      << Site(1, 1, 1, "A"), Site(3, 3, 3, "B") >> }

RemoveAt(seq, v) ==
    [n \in 1..(Len(seq) - 1) |-> IF n < v THEN seq[n] ELSE seq[n + 1]]

SiteCells == {Cell(2, 2, 2), Cell(2, 3, 4)}

\* the defect cells of a bulk: a vacancy at each site, an interstitial, and
\* the sites of the bulk (a substitution, or no defect)
DefectSiteLists(sites) ==
    {RemoveAt(sites, v) : v \in DOMAIN sites}
       \cup {Append(sites, Site(2, 2, 3, "A"))}
       \cup {sites}

InitSites ==
    /\ \E c \in SiteCells : \E b \in BulkSiteLists : \E d \in DefectSiteLists(b) :
          /\ struct = [lattice |-> c.lattice, sites |-> b]
          /\ defstruct = [lattice |-> c.lattice, sites |-> d]
    /\ found_pos \in [blk : SiteAnswers(struct), def : SiteAnswers(defstruct)]
    /\ dpc = "start"
    /\ def_ccoord = ZeroVec
    /\ defcell_def_ccoord = ZeroVec
    /\ site_i = 1
    /\ dcart_coord = ZeroVec
    /\ closeimage = NoImage
    /\ grid_sites = << >>
    /\ err = ""
    /\ calls = {}
    /\ kc = [ dieltens |-> Diag(2 * FOne, 2 * FOne, 3 * FOne), q |-> 0,
              gamma |-> FOne, g_sum |-> GridA, structure |-> Cell(2, 2, 2),
              dim |-> GridDim, madetol |-> 100 ]
    /\ sitetable = NoSiteTable
    /\ puredat \in PurePotentials
    /\ defdat \in PurePotentials
    /\ partflag = "All"
    /\ title = ""
    /\ cpc = "done"
    /\ energy_pc = Num(0)
    /\ potalign_v = Num(0)
    /\ potinddict = << >>
    /\ result = NoResult
    /\ BulkIdle
    /\ UseIdle

NextSites ==
    \/ DisttransFind
    \/ DisttransSkip
    \/ DisttransSite
    \/ DisttransReturn

SpecSites == InitSites /\ [][NextSites]_vars

\* ------------------------------------------------------------------------
\* Runs of correction() with sites near the faces of the cell and with grids
\* of several shapes
\* ------------------------------------------------------------------------

IndicesOf(shape) ==
    {<<i, j, k>> : i \in 0..(shape[1] - 1), j \in 0..(shape[2] - 1),
                   k \in 0..(shape[3] - 1)}

\* the distance of grid point n of N from grid point 0 of the periodic grid
Mirror(n, N) == IF 2 * n <= N THEN n ELSE N - n

\* A reciprocal sum as reciprocal_sum returns it for the grid dimensions
\* shape: the real part of the transform of an array that is even in G, hence
\* even itself, g[n] = g[N - n] along every axis.
GridOfShape(shape) ==
    [g \in IndicesOf(shape) |->
       250000 - 20000 * (Mirror(g[1], shape[1]) + Mirror(g[2], shape[2])
                           + Mirror(g[3], shape[3]))]

\* self.dim of the locpot or outcar, and the dimensions KumagaiBulkInit was
\* given for g_sum
LocpotDims == {<<4, 4, 4>>, <<5, 4, 3>>, <<1, 4, 4>>}

GridShapes == {<<4, 4, 4>>, <<5, 4, 3>>}

\* displacements from the defect: just behind a face of the cell through the
\* defect, its negation, and one more than a lattice vector away
DispBehind == << -(FOne \div 5), FOne, FOne >>

DispAhead == << FOne \div 5, -FOne, -FOne >>

DispBeyond == << 2 * FOne + (FOne \div 5), FOne, FOne >>

EdgeSiteTables ==
    { [found |-> TRUE,
       recs  |-> [i \in SiteKeys |->
                    [ dist |-> Norm(d[(i % 2) + 1]), cart_reldef |-> d[(i % 2) + 1],
                      def_site_index |-> i, bulk_site_index |-> i ]]]
      : d \in { <<DispBehind, DispAhead>>, <<DispBeyond, DispOut1>> } }

InitEdge ==
    /\ kc \in { [ dieltens |-> Diag(2 * FOne, 2 * FOne, 3 * FOne), q |-> q,
                  gamma |-> FOne, g_sum |-> GridOfShape(shp), structure |-> c,
                  dim |-> dm, madetol |-> 100 ]
                : q \in Charges, c \in {Cell(2, 2, 2), Cell(2, 3, 4)},
                  dm \in LocpotDims, shp \in GridShapes }
    /\ sitetable \in EdgeSiteTables
    /\ puredat \in PurePotentials
    /\ defdat = [i \in SiteKeys |-> 300001 * i - 1234567]
    /\ partflag \in PartFlags
    /\ title \in Titles
    /\ cpc = "start"
    /\ energy_pc = Num(0)
    /\ potalign_v = Num(0)
    /\ potinddict = << >>
    /\ result = NoResult
    /\ err = ""
    /\ calls = {}
    /\ BulkIdle
    /\ UseIdle
    /\ SitesIdle

SpecEdge == InitEdge /\ [][Next]_vars

\* ------------------------------------------------------------------------
\* A KumagaiBulkInit and the corrections that use its gamma and its grid
\* ------------------------------------------------------------------------

MaxCalls == 2

\* the largest gamma, in 1/bohr, the corrections are run with
MaxGammaUsed == 5

\* the array reciprocal_sum returns for the grid dimensions of the bulk
BuiltGrid == GridOfShape(GridDim)

\* KumagaiCorrection.__init__ with the gamma and the g_sum of the bulk object,
\* followed by the entry into correction()
KumagaiCorrectionInit ==
    /\ gpc = "done"
    /\ cpc \in {"done", "raised"}
    /\ ncorr < MaxCalls
    /\ self_gamma.v <= FInt(MaxGammaUsed)
    /\ ncorr' = ncorr + 1
    /\ \E q \in Charges :
          kc' = [ dieltens |-> bk.epsilon, q |-> q, gamma |-> self_gamma.v,
                  g_sum |-> BuiltGrid, structure |-> bk.structure,
                  dim |-> GridDim, madetol |-> bk.tolerance ]
    /\ sitetable' \in {NoSiteTable} \cup {t \in PCSiteTables : t.recs[0].cart_reldef = DispOut2}
    /\ partflag' \in PartFlags
    /\ cpc' = "start"
    /\ energy_pc' = Num(0)
    /\ potalign_v' = Num(0)
    /\ potinddict' = << >>
    /\ result' = NoResult
    /\ err' = ""
    /\ calls' = {}
    /\ UNCHANGED << puredat, defdat, title, g_at_origin, dielvars, bulkvars, sitevars >>

\* get_g_sum_at_r(g_sum, structure, dim, [0, 0, 0]) on the grid of the bulk
GetGSumAtOrigin ==
    /\ gpc = "done"
    /\ cpc \in {"done", "raised"}
    /\ g_at_origin = NoQuery
    /\ g_at_origin' = get_g_sum_at_r(BuiltGrid, bk.structure, GridDim, ZeroVec)
    /\ UNCHANGED << kc, sitetable, puredat, defdat, partflag, title, cpc, energy_pc,
                    potalign_v, potinddict, result, ncorr, dielvars, err, calls,
                    bulkvars, sitevars >>

InitLife ==
    /\ bk \in { [ structure |-> Cell(2, 2, 2),
                  epsilon |-> Diag(2 * FOne, 2 * FOne, 3 * FOne),
                  encut |-> 25, tolerance |-> 100, optgamma |-> o ]
                : o \in {0, FOne} }
    /\ gpc = "init"
    /\ gamma_l = 0
    /\ encut_l = 0
    /\ converge_l = <<0, 0>>
    /\ self_gamma = NoGamma
    /\ self_g_sum = "unset"
    /\ gammalog = << >>
    /\ recipcalls = << >>
    /\ recipmemo = << >>
    /\ earlier = NoEarlier
    /\ rs = NoRecip
    /\ SumsIdle
    /\ err = ""
    /\ calls = {}
    /\ kc = [ dieltens |-> Diag(2 * FOne, 2 * FOne, 3 * FOne), q |-> 0,
              gamma |-> FOne, g_sum |-> BuiltGrid, structure |-> Cell(2, 2, 2),
              dim |-> GridDim, madetol |-> 100 ]
    /\ sitetable = NoSiteTable
    /\ puredat \in PurePotentials
    /\ defdat = [i \in SiteKeys |-> 300001 * i - 1234567]
    /\ partflag = "All"
    /\ title = ""
    /\ cpc = "done"
    /\ energy_pc = Num(0)
    /\ potalign_v = Num(0)
    /\ potinddict = << >>
    /\ result = NoResult
    /\ SitesIdle
    /\ UseIdle

NextLife ==
    \/ BulkInit
    \/ DoSummationStart
    \/ DoSummationStep
    \/ CandidateRejected
    \/ CandidateAccepted
    \/ ReciprocalSum
    \/ KumagaiCorrectionInit
    \/ GetGSumAtOrigin
    \/ CorrectionShortCircuit
    \/ CorrectionPC
    \/ CorrectionSkipPotalign
    \/ PotalignMark
    \/ PotalignPotentials
    \/ PotalignMean
    \/ CorrectionReturn

SpecLife == InitLife /\ [][NextLife]_vars

\* ------------------------------------------------------------------------
\* The forms of the dielectric tensor
\* ------------------------------------------------------------------------

\* A tensor as supplied is [ndim, a], its number of dimensions and its
\* entries in row order: a number (ndim 0), a list of three numbers (ndim 1)
\* or three rows of three (ndim 2).
Rows(a) == << <<a[1], a[2], a[3]>>, <<a[4], a[5], a[6]>>, <<a[7], a[8], a[9]>> >>

Flat(m) == m[1] \o m[2] \o m[3]

DielInputs ==
    { [ndim |-> 0, a |-> <<2 * FOne>>], [ndim |-> 0, a |-> <<3 * FOne>>],
      [ndim |-> 1, a |-> <<2 * FOne, 2 * FOne, 3 * FOne>>],
      [ndim |-> 1, a |-> <<3 * FOne, 3 * FOne, 3 * FOne>>],
      [ndim |-> 2, a |-> Flat(Diag(2 * FOne, 2 * FOne, 3 * FOne))],
      [ndim |-> 2, a |-> Flat(Diag(3 * FOne, 3 * FOne, 3 * FOne))] }

\* lines 40-44 of kumagai_init: the number times the identity, the list as a
\* diagonal (np.diagflat), the matrix as it is; the name dieltens is local
DieltensOfKumagaiInit(d) ==
    CASE d.ndim = 0 -> Diag(d.a[1], d.a[1], d.a[1])
      [] d.ndim = 1 -> Diag(d.a[1], d.a[2], d.a[3])
      [] OTHER      -> Rows(d.a)

\* self.dieltens of KumagaiCorrection.__init__: np.identity(3) times an int or
\* a float, np.array of anything else
SelfDieltens(d) ==
    IF d.ndim = 0 THEN [ndim |-> 2, a |-> Flat(Diag(d.a[1], d.a[1], d.a[1]))] ELSE d

\* reciprocal vectors (1/bohr) the sums run over
RecVecs == { <<FOne, 0, 0>>, <<0, FOne \div 2, FOne>> }

MatVec(m, v) == << Dot(m[1], v), Dot(m[2], v), Dot(m[3], v) >>

\* math.exp(-Gdotdiel/...)/Gdotdiel with Gdotdiel = np.dot(rec, np.dot(epsilon,
\* rec)) for self.epsilon as it was supplied.  np.dot of a list of three
\* numbers with rec is a number and np.dot of rec with that number an array of
\* three, of which math.exp raises a TypeError; the value is Gdotdiel.
Gdotdiel(epsilon, rec) ==
    CASE epsilon.ndim = 0 -> [err |-> "", v |-> Dot(rec, ScaleVec(epsilon.a[1], rec))]
      [] epsilon.ndim = 1 -> [err |-> "TypeError", v |-> 0]
      [] OTHER            -> [err |-> "", v |-> Dot(rec, MatVec(Rows(epsilon.a), rec))]

\* real_sum for a tensor of any form: np.linalg.inv of line 62 raises a
\* LinAlgError for an array of fewer than two dimensions
RealSumOfTensor(a1, a2, a3, r, q, d, gamma, tolerance) ==
    IF d.ndim < 2 THEN [err |-> "LinAlgError", none |-> FALSE, v |-> 0]
    ELSE Eval(real_sum(a1, a2, a3, r, q, Rows(d.a), gamma, tolerance), LAMBDA s :
              [err |-> "", none |-> s.none, v |-> s.v])

\* anisotropic_pc_energy for a tensor of any form: kumagai_init takes it, the
\* call of real_sum with the same argument follows
PcEnergyOfTensor(structure, g_sum, d, q, gamma, tolerance) ==
    IF d.ndim < 2 THEN [err |-> "LinAlgError", v |-> 0]
    ELSE anisotropic_pc_energy(structure, g_sum, Rows(d.a), q, gamma, tolerance)

\* anisotropic_madelung_potential for a tensor of any form: kumagai_init and
\* get_g_sum_at_r come before the call of real_sum
MadelungOfTensor(structure, dim, g_sum, r, d, q, gamma, tolerance) ==
    Eval(get_g_sum_at_r(g_sum, structure, dim, r), LAMBDA gs :
         IF gs.err # "" THEN [err |-> gs.err, v |-> 0]
         ELSE IF d.ndim < 2 THEN [err |-> "LinAlgError", v |-> 0]
         ELSE anisotropic_madelung_potential(structure, dim, g_sum, r, Rows(d.a), q,
                                             gamma, tolerance))

\* diel_out with the outcome of one more computation
WithOutcome(name, outcome) ==
    [n \in DOMAIN diel_out \cup {name} |-> IF n = name THEN outcome ELSE diel_out[n]]

\* the summand of get_recippart, of the gamma search of KumagaiBulkInit
TensorGammaSearch ==
    /\ "gamma_search" \notin DOMAIN diel_out
    /\ \E rec \in RecVecs :
          diel_out' = WithOutcome("gamma_search", [rec |-> rec, out |-> Gdotdiel(diel_in, rec)])
    /\ UNCHANGED << corevars, g_at_origin, ncorr, diel_in, sitevars, err, calls, bulkvars >>

\* an element of g_array of reciprocal_sum
TensorReciprocalSum ==
    /\ "reciprocal_sum" \notin DOMAIN diel_out
    /\ \E rec \in RecVecs :
          diel_out' = WithOutcome("reciprocal_sum", [rec |-> rec, out |-> Gdotdiel(diel_in, rec)])
    /\ UNCHANGED << corevars, g_at_origin, ncorr, diel_in, sitevars, err, calls, bulkvars >>

\* real_sum at zero displacement, called with the tensor as supplied
TensorRealSum ==
    /\ "real_sum" \notin DOMAIN diel_out
    /\ \E ki \in {kumagai_init(kc.structure, DieltensOfKumagaiInit(diel_in))} :
          diel_out' = WithOutcome("real_sum",
                               RealSumOfTensor(ki.bohrset[1], ki.bohrset[2], ki.bohrset[3],
                                               ZeroVec, kc.q, diel_in, kc.gamma, kc.madetol))
    /\ UNCHANGED << corevars, g_at_origin, ncorr, diel_in, sitevars, err, calls, bulkvars >>

\* KumagaiCorrection(diel_in, ...).pc()
TensorPcEnergy ==
    /\ "pc" \notin DOMAIN diel_out
    /\ diel_out' = WithOutcome("pc", PcEnergyOfTensor(kc.structure, kc.g_sum,
                                                   SelfDieltens(diel_in), kc.q, kc.gamma,
                                                   kc.madetol))
    /\ UNCHANGED << corevars, g_at_origin, ncorr, diel_in, sitevars, err, calls, bulkvars >>

\* the Madelung potential potalign() of KumagaiCorrection(diel_in, ...) takes
\* at a site outside the sampling radius
TensorMadelung ==
    /\ "madelung" \notin DOMAIN diel_out
    /\ diel_out' = WithOutcome("madelung",
                            MadelungOfTensor(kc.structure, kc.dim, kc.g_sum, DispOut2,
                                             SelfDieltens(diel_in), kc.q, kc.gamma,
                                             kc.madetol))
    /\ UNCHANGED << corevars, g_at_origin, ncorr, diel_in, sitevars, err, calls, bulkvars >>

InitDiel ==
    /\ diel_in \in DielInputs
    /\ diel_out = << >>
    /\ g_at_origin = NoQuery
    /\ ncorr = 0
    /\ kc \in { [ dieltens |-> DieltensOfKumagaiInit(diel_in), q |-> q, gamma |-> g,
                  g_sum |-> BuiltGrid, structure |-> Cell(2, 2, 2), dim |-> GridDim,
                  madetol |-> 100 ] : q \in Charges \ {0}, g \in PCGammas }
    /\ sitetable = NoSiteTable
    /\ puredat \in PurePotentials
    /\ defdat = [i \in SiteKeys |-> 300001 * i - 1234567]
    /\ partflag = "All"
    /\ title = ""
    /\ cpc = "done"
    /\ energy_pc = Num(0)
    /\ potalign_v = Num(0)
    /\ potinddict = << >>
    /\ result = NoResult
    /\ err = ""
    /\ calls = {}
    /\ SitesIdle
    /\ BulkIdle

NextDiel ==
    \/ TensorGammaSearch
    \/ TensorReciprocalSum
    \/ TensorRealSum
    \/ TensorPcEnergy
    \/ TensorMadelung

SpecDiel == InitDiel /\ [][NextDiel]_vars

\* ------------------------------------------------------------------------
\* The loops of reciprocal_sum
\* ------------------------------------------------------------------------

\* ind1, ind2, ind3: np.arange(n) with ind[i] = i - n for i in range(n/2, n),
\* n/2 being the floor division of two ints
Ind(n) == [i \in 0..(n - 1) |-> IF i >= n \div 2 THEN i - n ELSE i]

\* the array position a signed index selects along an axis of length n
PositionOf(i, n) == i % n

\* the i, j, k of pass t of the three loops (t counts from 0, k innermost)
PassMultiples(dim, t) ==
    << Ind(dim[1])[t \div (dim[2] * dim[3])],
       Ind(dim[2])[(t \div dim[3]) % dim[2]],
       Ind(dim[3])[t % dim[3]] >>

RecipDims == { <<4, 4, 4>>, <<5, 4, 3>>, <<2, 3, 4>> }

\* one pass of the innermost loop: nothing is written for i == j == k == 0,
\* g_array[i,j,k] is assigned otherwise
RecipPass ==
    /\ ~rs.returned
    /\ rs.t < rs.dim[1] * rs.dim[2] * rs.dim[3]
    /\ \E m \in {PassMultiples(rs.dim, rs.t)} :
       \E pos \in {<< PositionOf(m[1], rs.dim[1]), PositionOf(m[2], rs.dim[2]),
                      PositionOf(m[3], rs.dim[3]) >>} :
          rs' = IF m = <<0, 0, 0>>
                THEN [rs EXCEPT !.t = rs.t + 1]
                ELSE [rs EXCEPT !.t = rs.t + 1,
                                !.mult = [x \in DOMAIN rs.mult \cup {pos} |->
                                            IF x = pos THEN m ELSE rs.mult[x]],
                                !.writes = [x \in DOMAIN rs.writes \cup {pos} |->
                                              IF x = pos
                                              THEN (IF pos \in DOMAIN rs.writes
                                                    THEN rs.writes[pos] + 1 ELSE 1)
                                              ELSE rs.writes[x]]]
    /\ UNCHANGED << corrvars, err, calls, bk, gpc, gamma_l, encut_l, converge_l,
                    self_gamma, self_g_sum, gammalog, recipcalls, rerunvars, sumvars >>

\* np.fft.fftn(g_array) and the return of its real part
RecipTransform ==
    /\ ~rs.returned
    /\ rs.t = rs.dim[1] * rs.dim[2] * rs.dim[3]
    /\ rs' = [rs EXCEPT !.returned = TRUE]
    /\ UNCHANGED << corrvars, err, calls, bk, gpc, gamma_l, encut_l, converge_l,
                    self_gamma, self_g_sum, gammalog, recipcalls, rerunvars, sumvars >>

InitRecip ==
    /\ rs \in { [NoRecip EXCEPT !.dim = d] : d \in RecipDims }
    /\ SumsIdle
    /\ bk = [structure |-> Cell(2, 2, 2), epsilon |-> Diag(2 * FOne, 2 * FOne, 3 * FOne),
             encut |-> 520, tolerance |-> 100, optgamma |-> FOne]
    /\ gpc = "recip"
    /\ gamma_l = 0
    /\ encut_l = 0
    /\ converge_l = <<0, 0>>
    /\ self_gamma = SomeGamma(FOne)
    /\ self_g_sum = "unset"
    /\ gammalog = << >>
    /\ recipcalls = << >>
    /\ recipmemo = << >>
    /\ earlier = NoEarlier
    /\ err = ""
    /\ calls = {"reciprocal_sum"}
    /\ kc = [ dieltens |-> Diag(2 * FOne, 2 * FOne, 3 * FOne), q |-> 0,
              gamma |-> FOne, g_sum |-> GridA, structure |-> Cell(2, 2, 2),
              dim |-> GridDim, madetol |-> 100 ]
    /\ sitetable = NoSiteTable
    /\ puredat \in PurePotentials
    /\ defdat \in PurePotentials
    /\ partflag = "All"
    /\ title = ""
    /\ cpc = "done"
    /\ energy_pc = Num(0)
    /\ potalign_v = Num(0)
    /\ potinddict = << >>
    /\ result = NoResult
    /\ SitesIdle
    /\ UseIdle

NextRecip ==
    \/ RecipPass
    \/ RecipTransform

SpecRecip == InitRecip /\ [][NextRecip]_vars

\* ------------------------------------------------------------------------
\* real_sum term by term
\* ------------------------------------------------------------------------

\* np.linalg.inv of a 3x3 matrix
Inv3(m) ==
    Eval(<< Det3(m), Cross(m[2], m[3]), Cross(m[3], m[1]), Cross(m[1], m[2]) >>, LAMBDA p :
         << << FDiv(p[2][1], p[1]), FDiv(p[3][1], p[1]), FDiv(p[4][1], p[1]) >>,
            << FDiv(p[2][2], p[1]), FDiv(p[3][2], p[1]), FDiv(p[4][2], p[1]) >>,
            << FDiv(p[2][3], p[1]), FDiv(p[3][3], p[1]), FDiv(p[4][3], p[1]) >> >>)

\* `if i == j == k == 0: continue`
AtOriginOrAxis(i, j, k) == i = 0 /\ j = 0

AtOrigin(i, j, k) == i = 0 /\ j = 0 /\ k = 0

\* whether the pass i, j, k adds a term: every pass of the loops under
\* `if norm(r)`, every pass but the skipped one of the loops under `else`
AddsTerm(r, i, j, k) == IsNonZero(r) \/ ~AtOrigin(i, j, k)

\* r_vec, loc_res, the argument of math.erfc and dmr of one pass
TermOf(a, r, invdiel, determ, gamma, i, j, k) ==
    Eval(VecSub(TransVec(a, i, j, k), r), LAMBDA r_vec :
    Eval(Dot(r_vec, MatVec(invdiel, r_vec)), LAMBDA loc_res :
         [ ijk |-> <<i, j, k>>, loc_res |-> loc_res,
           erfc_of |-> FMul(gamma, FSqrt(loc_res)),
           dmr |-> FSqrt(FMul(determ, loc_res)) ]))

\* nmr / dmr
TermValue(term) == FDiv(FErfc(term.erfc_of), term.dmr)

\* the i, j, k of pass t of the three loops of shell N (t counts from 0)
ShellPassIndex(N, t) ==
    << (t \div ((2 * N + 1) * (2 * N + 1))) - N,
       ((t \div (2 * N + 1)) % (2 * N + 1)) - N,
       (t % (2 * N + 1)) - N >>

ShellPasses(N) == (2 * N + 1) * (2 * N + 1) * (2 * N + 1)

NoTerm == [ijk |-> <<0, 0, 0>>, loc_res |-> 0, erfc_of |-> 0, dmr |-> -1]

\* one pass of the innermost loop of real_sum
ShellPass ==
    /\ sh.N > 0
    /\ ~sh.ended
    /\ sh.t < ShellPasses(sh.N)
    /\ \E p \in {ShellPassIndex(sh.N, sh.t)} :
          IF AddsTerm(sh.r, p[1], p[2], p[3])
          THEN \E term \in {TermOf(sh.a, sh.r, Inv3(sh.dieltens), Det3(sh.dieltens),
                                   sh.gamma, p[1], p[2], p[3])} :
                  sh' = [sh EXCEPT !.t = sh.t + 1, !.last = term,
                                   !.nterms = sh.nterms + 1,
                                   !.r_sum = sh.r_sum + TermValue(term)]
          ELSE sh' = [sh EXCEPT !.t = sh.t + 1, !.last = NoTerm,
                                !.skipped = Append(sh.skipped, p)]
    /\ UNCHANGED << corrvars, err, calls, bk, gpc, gamma_l, encut_l, converge_l,
                    self_gamma, self_g_sum, gammalog, recipcalls, rerunvars, rs, rcall,
                    iso, gcall >>

\* r_sums.append([N, realpre * r_sum])
ShellEnd ==
    /\ sh.N > 0
    /\ ~sh.ended
    /\ sh.t = ShellPasses(sh.N)
    /\ sh' = [sh EXCEPT !.ended = TRUE,
                        !.r_sum = FMul(FDiv(FInt(sh.q), FSqrt(Det3(sh.dieltens))), sh.r_sum)]
    /\ UNCHANGED << corrvars, err, calls, bk, gpc, gamma_l, encut_l, converge_l,
                    self_gamma, self_g_sum, gammalog, recipcalls, rerunvars, rs, rcall,
                    iso, gcall >>

ShellTensors ==
    { Diag(FOne, FOne, FOne), Diag(FOne + FOne \div 2, FOne + FOne \div 2, FOne + FOne \div 2),
      Diag(2 * FOne, 2 * FOne, 3 * FOne) }

ShellSizes == {2, 3}

InitShell ==
    /\ sh \in { [ a |-> kumagai_init(Cell(1, 1, 1), d).bohrset, r |-> r, q |-> 1,
                  dieltens |-> d, gamma |-> FOne, N |-> N, t |-> 0, r_sum |-> 0,
                  nterms |-> 0, skipped |-> << >>, last |-> NoTerm, ended |-> FALSE ]
                : d \in ShellTensors, r \in {ZeroVec, DispAhead}, N \in ShellSizes }
    /\ rcall = NoCall
    /\ iso = NoIso
    /\ gcall = NoGridCall
    /\ rs = NoRecip
    /\ bk = [structure |-> Cell(2, 2, 2), epsilon |-> Diag(2 * FOne, 2 * FOne, 3 * FOne),
             encut |-> 520, tolerance |-> 100, optgamma |-> FOne]
    /\ gpc = "done"
    /\ gamma_l = 0
    /\ encut_l = 0
    /\ converge_l = <<0, 0>>
    /\ self_gamma = SomeGamma(FOne)
    /\ self_g_sum = "built"
    /\ gammalog = << >>
    /\ recipcalls = << >>
    /\ recipmemo = << >>
    /\ earlier = NoEarlier
    /\ err = ""
    /\ calls = {"real_sum"}
    /\ kc = [ dieltens |-> Diag(2 * FOne, 2 * FOne, 3 * FOne), q |-> 0,
              gamma |-> FOne, g_sum |-> GridA, structure |-> Cell(2, 2, 2),
              dim |-> GridDim, madetol |-> 100 ]
    /\ sitetable = NoSiteTable
    /\ puredat \in PurePotentials
    /\ defdat \in PurePotentials
    /\ partflag = "All"
    /\ title = ""
    /\ cpc = "done"
    /\ energy_pc = Num(0)
    /\ potalign_v = Num(0)
    /\ potinddict = << >>
    /\ result = NoResult
    /\ SitesIdle
    /\ UseIdle

NextShell ==
    \/ ShellPass
    \/ ShellEnd

SpecShell == InitShell /\ [][NextShell]_vars

\* ------------------------------------------------------------------------
\* Calls of real_sum
\* ------------------------------------------------------------------------

\* gammas for which the sums settle at once, late, with the last shell, never
CallGammas == {FOne, FOne \div 8, 32 * 1000, FOne \div 40}

\* real_sum(a1, a2, a3, r, q, dieltens, gamma, tolerance) from call to return
RealSumCall ==
    /\ ~rcall.called
    /\ \E ki \in {kumagai_init(rcall.structure, rcall.dieltens)} :
          rcall' = [rcall EXCEPT !.called = TRUE,
                                 !.out = real_sum(ki.bohrset[1], ki.bohrset[2], ki.bohrset[3],
                                                  rcall.r, rcall.q, rcall.dieltens,
                                                  rcall.gamma, rcall.tolerance)]
    /\ UNCHANGED << corrvars, err, calls, bk, gpc, gamma_l, encut_l, converge_l,
                    self_gamma, self_g_sum, gammalog, recipcalls, rerunvars, rs, sh, iso, gcall >>

InitRealSum ==
    /\ rcall \in { [ called |-> FALSE, structure |-> Cell(2, 2, 2), dieltens |-> d,
                     r |-> r, q |-> q, gamma |-> g, tolerance |-> 100,
                     out |-> [none |-> TRUE, v |-> 0, N |-> 0] ]
                   : d \in {Diag(FOne, FOne, FOne), Diag(2 * FOne, 2 * FOne, 3 * FOne)},
                     r \in {ZeroVec, DispOut2}, q \in Charges \ {0}, g \in CallGammas }
    /\ sh = [N |-> 0]
    /\ iso = NoIso
    /\ gcall = NoGridCall
    /\ rs = NoRecip
    /\ bk = [structure |-> Cell(2, 2, 2), epsilon |-> Diag(2 * FOne, 2 * FOne, 3 * FOne),
             encut |-> 520, tolerance |-> 100, optgamma |-> FOne]
    /\ gpc = "done"
    /\ gamma_l = 0
    /\ encut_l = 0
    /\ converge_l = <<0, 0>>
    /\ self_gamma = SomeGamma(FOne)
    /\ self_g_sum = "built"
    /\ gammalog = << >>
    /\ recipcalls = << >>
    /\ recipmemo = << >>
    /\ earlier = NoEarlier
    /\ err = ""
    /\ calls = {"real_sum"}
    /\ kc = [ dieltens |-> Diag(2 * FOne, 2 * FOne, 3 * FOne), q |-> 0,
              gamma |-> FOne, g_sum |-> GridA, structure |-> Cell(2, 2, 2),
              dim |-> GridDim, madetol |-> 100 ]
    /\ sitetable = NoSiteTable
    /\ puredat \in PurePotentials
    /\ defdat \in PurePotentials
    /\ partflag = "All"
    /\ title = ""
    /\ cpc = "done"
    /\ energy_pc = Num(0)
    /\ potalign_v = Num(0)
    /\ potinddict = << >>
    /\ result = NoResult
    /\ SitesIdle
    /\ UseIdle

NextRealSum == RealSumCall

SpecRealSum == InitRealSum /\ [][NextRealSum]_vars

\* ------------------------------------------------------------------------
\* The point-charge energy with its sums computed
\* ------------------------------------------------------------------------

\* f[lo] + ... + f[hi], the range halved at each level
RECURSIVE SumRange(_, _, _)
SumRange(f, lo, hi) ==
    IF lo > hi THEN 0
    ELSE IF lo = hi THEN f[lo]
    ELSE SumRange(f, lo, (lo + hi) \div 2) + SumRange(f, (lo + hi) \div 2 + 1, hi)

\* r_sum after the loops of shell size c.N: the terms of all its passes; c
\* holds a, r, invdiel, determ, gamma and N
ShellSum(c) ==
    SumRange([t \in 0..(ShellPasses(c.N) - 1) |->
                LET ijk == ShellPassIndex(c.N, t)
                IN  IF AddsTerm(c.r, ijk[1], ijk[2], ijk[3])
                    THEN TermValue(TermOf(c.a, c.r, c.invdiel, c.determ, c.gamma,
                                          ijk[1], ijk[2], ijk[3]))
                    ELSE 0],
             0, ShellPasses(c.N) - 1)

\* real_sum with every shell summed term by term
real_sum_by_terms(a1, a2, a3, r, q, dieltens, gamma, tolerance) ==
    Eval(<< Inv3(dieltens), Det3(dieltens) >>, LAMBDA p :
         RealSumLoop(2, 0,
                     [N \in 2..(Nmaxlength - 1) |->
                        ShellSum([a |-> <<a1, a2, a3>>, r |-> r, invdiel |-> p[1],
                                  determ |-> p[2], gamma |-> gamma, N |-> N])],
                     FDiv(FInt(q), FSqrt(p[2])), FDiv(tolerance, hart_to_ev)))

\* latt.reciprocal_lattice (2 pi times the dual basis, 1/angstrom) with b1, b2,
\* b3 scaled by over_atob
RecipBohrset(structure) ==
    Eval(<< structure.lattice[1], structure.lattice[2], structure.lattice[3] >>, LAMBDA a :
    Eval(Dot(a[1], Cross(a[2], a[3])), LAMBDA v :
         << ScaleVec(FDiv(FDiv(2 * FPi, v), ang_to_bohr), Cross(a[2], a[3])),
            ScaleVec(FDiv(FDiv(2 * FPi, v), ang_to_bohr), Cross(a[3], a[1])),
            ScaleVec(FDiv(FDiv(2 * FPi, v), ang_to_bohr), Cross(a[1], a[2])) >>))

\* what the pass with the multiples m assigns to g_array: nothing for
\* (0, 0, 0), math.exp(-g_eps_g/gamm2)/g_eps_g otherwise
GArrayValue(b, epsilon, gamma, m) ==
    IF m = <<0, 0, 0>> THEN 0
    ELSE Eval(TransVec(b, m[1], m[2], m[3]), LAMBDA g :
         Eval(Dot(g, MatVec(epsilon, g)), LAMBDA g_eps_g :
              FDiv(FExpNeg(FDiv(g_eps_g, 4 * FMul(gamma, gamma))), g_eps_g)))

\* the element [0,0,0] of np.fft.fftn(g_array): the sum of the elements of
\* g_array over the passes of the loops
GArraySum(c) ==
    SumRange([t \in 0..(c.dim[1] * c.dim[2] * c.dim[3] - 1) |->
                GArrayValue(c.b, c.epsilon, c.gamma, PassMultiples(c.dim, t))],
             0, c.dim[1] * c.dim[2] * c.dim[3] - 1)

\* reciprocal_sum()[0,0,0]: the transform at the origin times 4 pi / vol
GSumAtOrigin(structure, dim, epsilon, gamma) ==
    Eval(GArraySum([b |-> RecipBohrset(structure), epsilon |-> epsilon, gamma |-> gamma,
                    dim |-> dim]), LAMBDA total :
         FMul(total, FDiv(4 * FPi, kumagai_init(structure, epsilon).vol)))

\* KumagaiBulkInit(...).g_sum[0,0,0] for the inputs of the energy
IsoReciprocalSum ==
    /\ iso.stage = "start"
    /\ iso' = [iso EXCEPT !.stage = "grid",
                          !.g000 = GSumAtOrigin(iso.structure, iso.dim, iso.dieltens,
                                                iso.gamma)]
    /\ UNCHANGED << corrvars, err, calls, bk, gpc, gamma_l, encut_l, converge_l,
                    self_gamma, self_g_sum, gammalog, recipcalls, rerunvars, rs, sh,
                    rcall, gcall >>

\* anisotropic_pc_energy up to r_part
IsoRealSum ==
    /\ iso.stage = "grid"
    /\ \E ki \in {kumagai_init(iso.structure, iso.dieltens)} :
          iso' = [iso EXCEPT !.stage = "real",
                             !.r_part = real_sum_by_terms(ki.bohrset[1], ki.bohrset[2],
                                                          ki.bohrset[3], ZeroVec, iso.q,
                                                          iso.dieltens, iso.gamma,
                                                          iso.tolerance)]
    /\ UNCHANGED << corrvars, err, calls, bk, gpc, gamma_l, encut_l, converge_l,
                    self_gamma, self_g_sum, gammalog, recipcalls, rerunvars, rs, sh,
                    rcall, gcall >>

\* anisotropic_pc_energy from selfint to its return
IsoPcEnergy ==
    /\ iso.stage = "real"
    /\ ~iso.r_part.none
    /\ \E ki \in {kumagai_init(iso.structure, iso.dieltens)} :
          iso' = [iso EXCEPT !.stage = "done",
                             !.energy = PcEnergy(iso.q, iso.r_part.v,
                                                 FMul(FInt(iso.q), iso.g000),
                                                 SelfInt(iso.q, ki.vol, iso.gamma),
                                                 SurfTerm(iso.q, iso.gamma, ki.determ))]
    /\ UNCHANGED << corrvars, err, calls, bk, gpc, gamma_l, encut_l, converge_l,
                    self_gamma, self_g_sum, gammalog, recipcalls, rerunvars, rs, sh,
                    rcall, gcall >>

\* isotropic tensors eps times the identity, eps = 1 and 1.5
IsoTensors ==
    { Diag(FOne, FOne, FOne),
      Diag(FOne + FOne \div 2, FOne + FOne \div 2, FOne + FOne \div 2) }

InitIso ==
    /\ iso \in { [ stage |-> "start", structure |-> Cell(1, 1, 1), dieltens |-> d,
                   q |-> q, gamma |-> g, dim |-> dim, tolerance |-> 100, g000 |-> 0,
                   r_part |-> [none |-> TRUE, v |-> 0, N |-> 0], energy |-> 0 ]
                 : d \in IsoTensors, q \in Charges \ {0},
                   g \in {FOne, FOne + FOne \div 4}, dim \in {<<4, 4, 4>>, <<6, 6, 6>>} }
    /\ sh = [N |-> 0]
    /\ rcall = NoCall
    /\ gcall = NoGridCall
    /\ rs = NoRecip
    /\ bk = [structure |-> Cell(2, 2, 2), epsilon |-> Diag(2 * FOne, 2 * FOne, 3 * FOne),
             encut |-> 520, tolerance |-> 100, optgamma |-> FOne]
    /\ gpc = "done"
    /\ gamma_l = 0
    /\ encut_l = 0
    /\ converge_l = <<0, 0>>
    /\ self_gamma = SomeGamma(FOne)
    /\ self_g_sum = "built"
    /\ gammalog = << >>
    /\ recipcalls = << >>
    /\ recipmemo = << >>
    /\ earlier = NoEarlier
    /\ err = ""
    /\ calls = {"anisotropic_pc_energy"}
    /\ kc = [ dieltens |-> Diag(2 * FOne, 2 * FOne, 3 * FOne), q |-> 0,
              gamma |-> FOne, g_sum |-> GridA, structure |-> Cell(2, 2, 2),
              dim |-> GridDim, madetol |-> 100 ]
    /\ sitetable = NoSiteTable
    /\ puredat \in PurePotentials
    /\ defdat \in PurePotentials
    /\ partflag = "All"
    /\ title = ""
    /\ cpc = "done"
    /\ energy_pc = Num(0)
    /\ potalign_v = Num(0)
    /\ potinddict = << >>
    /\ result = NoResult
    /\ SitesIdle
    /\ UseIdle

NextIso ==
    \/ IsoReciprocalSum
    \/ IsoRealSum
    \/ IsoPcEnergy

SpecIso == InitIso /\ [][NextIso]_vars

\* ------------------------------------------------------------------------
\* Calls of getgridind
\* ------------------------------------------------------------------------

\* r[i] after the pass of axis i: 1 added or subtracted until it is in
\* [0, 1), then r[i] *= abc[i]
AxisAfter(abc_i, r_i) == FMul(r_i % FOne, abc_i)

\* the array r when getgridind returns or raises: the pass of an axis assigns
\* r[i] before its grid is looked at, and a pass that raises is the last
RAfter(structure, dim, r) ==
    LET abc == LatticeAbc(structure)
        g1  == GridAxis(abc[1], dim[1], r[1])
        g2  == GridAxis(abc[2], dim[2], r[2])
    IN  << AxisAfter(abc[1], r[1]),
           IF g1.err = "" THEN AxisAfter(abc[2], r[2]) ELSE r[2],
           IF g1.err = "" /\ g2.err = "" THEN AxisAfter(abc[3], r[3]) ELSE r[3] >>

\* int(np.ceil(gridavg/dx))
CeilOfRatio(gridavg, dx) == (gridavg + dx - 1) \div dx

\* the offsets i, j, k of pass t (from 0) of the loops over
\* range(-radvals[n], radvals[n]+1)
AvgOffset(radvals, t) ==
    << (t \div ((2 * radvals[2] + 1) * (2 * radvals[3] + 1))) - radvals[1],
       ((t \div (2 * radvals[3] + 1)) % (2 * radvals[2] + 1)) - radvals[2],
       (t % (2 * radvals[3] + 1)) - radvals[3] >>

\* grdindfull: the grid points within gridavg of the point grdind, in the
\* order of the loops
GrdIndFull(grdind, dim, dxvals, gridavg) ==
    Eval([n \in 1..3 |-> CeilOfRatio(gridavg, dxvals[n])] @@ << >>, LAMBDA radvals :
    Eval(SelectSeq([t \in 1..((2 * radvals[1] + 1) * (2 * radvals[2] + 1)
                                * (2 * radvals[3] + 1)) |-> AvgOffset(radvals, t - 1)],
                   LAMBDA o : Norm(<< o[1] * dxvals[1], o[2] * dxvals[2],
                                      o[3] * dxvals[3] >>) < gridavg),
         LAMBDA inside :
            [n \in 1..Len(inside) |-> << (inside[n][1] + grdind[1]) % dim[1],
                                         (inside[n][2] + grdind[2]) % dim[2],
                                         (inside[n][3] + grdind[3]) % dim[3] >>]))

\* dx = x[1] - x[0] of each axis
DxVals(structure, dim) ==
    [n \in 1..3 |-> GridPoint(LatticeAbc(structure)[n], dim[n], 1)
                      - GridPoint(LatticeAbc(structure)[n], dim[n], 0)] @@ << >>

\* a call getgridind(structure, dim, r, gridavg) with r the caller's array:
\* the passes of the three axes assign to r[i], and the return is the index
\* of the nearest grid point or, with gridavg, the points around it
GetGridIndCall ==
    /\ gcall.called = FALSE
    /\ \E gi \in {getgridind(gcall.structure, gcall.dim, gcall.r)} :
          gcall' = [gcall EXCEPT
                      !.called = TRUE,
                      !.r = RAfter(gcall.structure, gcall.dim, gcall.r),
                      !.err = gi.err,
                      !.out = IF gi.err # "" THEN << >>
                              ELSE IF gcall.gridavg = 0 THEN << gi.ind >>
                              ELSE GrdIndFull(gi.ind, gcall.dim,
                                              DxVals(gcall.structure, gcall.dim),
                                              gcall.gridavg)]
    /\ UNCHANGED << corrvars, err, calls, bk, gpc, gamma_l, encut_l, converge_l,
                    self_gamma, self_g_sum, gammalog, recipcalls, rerunvars, rs, sh,
                    rcall, iso >>

\* fractional coordinates in and out of [0, 1)
FracCoords ==
    { << 0, 0, 0 >>,
      << FOne \div 4, FOne \div 2, 3 * (FOne \div 4) >>,
      << -(FOne \div 4), FOne + FOne \div 2, 0 >>,
      << FOne \div 2, FOne \div 2, FOne \div 2 >>,
      << 2 * FOne, -FOne, FOne >>,
      << 9 * (FOne \div 10), FOne \div 10, FOne \div 2 >> }

\* gridavg: 0.0, the default, and the radius 1.0 read_ES_avg_fromlocpot uses
GridAvgs == {0, FOne}

InitGridInd ==
    /\ gcall \in { [ called |-> FALSE, structure |-> c, dim |-> dm, r |-> r,
                     r_before |-> r, gridavg |-> ga, err |-> "", out |-> << >> ]
                   : c \in {Cell(1, 1, 1), Cell(2, 2, 2), Cell(2, 3, 4)},
                     dm \in LocpotDims, r \in FracCoords, ga \in GridAvgs }
    /\ sh = [N |-> 0]
    /\ rcall = NoCall
    /\ iso = NoIso
    /\ rs = NoRecip
    /\ bk = [structure |-> Cell(2, 2, 2), epsilon |-> Diag(2 * FOne, 2 * FOne, 3 * FOne),
             encut |-> 520, tolerance |-> 100, optgamma |-> FOne]
    /\ gpc = "done"
    /\ gamma_l = 0
    /\ encut_l = 0
    /\ converge_l = <<0, 0>>
    /\ self_gamma = SomeGamma(FOne)
    /\ self_g_sum = "built"
    /\ gammalog = << >>
    /\ recipcalls = << >>
    /\ recipmemo = << >>
    /\ earlier = NoEarlier
    /\ err = ""
    /\ calls = {"getgridind"}
    /\ kc = [ dieltens |-> Diag(2 * FOne, 2 * FOne, 3 * FOne), q |-> 0,
              gamma |-> FOne, g_sum |-> GridA, structure |-> Cell(2, 2, 2),
              dim |-> GridDim, madetol |-> 100 ]
    /\ sitetable = NoSiteTable
    /\ puredat \in PurePotentials
    /\ defdat \in PurePotentials
    /\ partflag = "All"
    /\ title = ""
    /\ cpc = "done"
    /\ energy_pc = Num(0)
    /\ potalign_v = Num(0)
    /\ potinddict = << >>
    /\ result = NoResult
    /\ SitesIdle
    /\ UseIdle

NextGridInd == GetGridIndCall

SpecGridInd == InitGridInd /\ [][NextGridInd]_vars

\* ------------------------------------------------------------------------
\* Properties of correction() and potalign()
\* ------------------------------------------------------------------------

\* C1: correction() with q = 0 returns 0.0, or [0, 0, 0] for 'AllSplit', and
\* returns before pc(), potalign(), real_sum, the site mapping or any reading
\* of potentials has run.
C1_ZeroChargeShortCircuit ==
    kc.q = 0 =>
       /\ cpc \in {"start", "done"}
       /\ calls = {}
       /\ potinddict = << >>
       /\ err = ""
       /\ cpc = "done" =>
             result = IF partflag = "AllSplit"
                      THEN [list |-> TRUE, vals |-> <<Num(0), Num(0), Num(0)>>]
                      ELSE [list |-> FALSE, vals |-> <<Num(0)>>]

C1_Witness == kc.q = 0 /\ cpc = "done" /\ partflag = "AllSplit" /\ result.list

\* C2: for q != 0 the point-charge energy is computed iff partflag is not
\* 'potalign', the alignment iff partflag is not 'pc', and the value returned
\* is round(pc, 5), round(potalign, 5), round(pc + potalign, 5) or the triple
\* of the three, by partflag.
C2_PartflagSelects ==
    (cpc = "done" /\ kc.q # 0) =>
       /\ ("pc" \in calls) <=> (partflag # "potalign")
       /\ ("potalign" \in calls) <=> (partflag # "pc")
       /\ partflag = "pc" =>
             result = [list |-> FALSE, vals |-> <<PyRound(energy_pc, 5)>>]
       /\ partflag = "potalign" =>
             result = [list |-> FALSE, vals |-> <<PyRound(potalign_v, 5)>>]
       /\ partflag = "All" =>
             result = [list |-> FALSE,
                       vals |-> <<PyRound(NumAdd(energy_pc, potalign_v), 5)>>]
       /\ partflag = "AllSplit" =>
             result = [list |-> TRUE,
                       vals |-> << PyRound(energy_pc, 5), PyRound(potalign_v, 5),
                                   PyRound(NumAdd(energy_pc, potalign_v), 5) >>]

\* a run that returns a sum whose rounding differs from the sum of the
\* rounded parts
C2_Witness ==
    /\ cpc = "done" /\ kc.q # 0 /\ partflag = "All"
    /\ ~potalign_v.nan
    /\ result.vals[1] # NumAdd(PyRound(energy_pc, 5), PyRound(potalign_v, 5))

\* potalign() has returned
PotalignReturned == cpc \in {"pa_done", "done"} /\ "potalign" \in calls

\* the site records strictly farther from the defect than the Wigner-Seitz radius
SampledSites ==
    { i \in DOMAIN sitetable.recs :
        sitetable.recs[i].dist > wigner_seitz_radius(kc.structure) }

\* v_qb of record i, from the potentials handed to the run
RecordVqb(i) ==
    -(defdat[sitetable.recs[i].def_site_index]
        - puredat[sitetable.recs[i].bulk_site_index])

\* v_pc of record i: the Madelung potential at its displacement
RecordVpc(i) == SiteVpc(sitetable.recs[i]).v

MeanOverSampled(f) == FDivInt(SumOver(SampledSites, f), Cardinality(SampledSites))

\* C3: potalign() returns -q times the mean of v_qb - v_pc over exactly the
\* records with distance > Wigner-Seitz radius (nan for none), with
\* v_qb = -(defect potential - bulk potential) at the record's indices,
\* whatever the title.
C3_PotalignIsMeanOutside ==
    PotalignReturned =>
       potalign_v =
          IF SampledSites = {} THEN NaN
          ELSE Num((-kc.q) * MeanOverSampled(
                     [i \in SampledSites |-> RecordVqb(i) - RecordVpc(i)]))

\* with a title, a site on the radius and a site outside it
C3_Witness ==
    /\ PotalignReturned /\ title # "" /\ ~potalign_v.nan /\ potalign_v.v # 0
    /\ \E i \in DOMAIN sitetable.recs :
          sitetable.recs[i].dist = wigner_seitz_radius(kc.structure)
    /\ SampledSites # {}
    /\ \E i \in DOMAIN sitetable.recs :
          sitetable.recs[i].def_site_index # sitetable.recs[i].bulk_site_index

\* C4: with no record farther than the Wigner-Seitz radius potalign() never
\* returns a value (it fails with InsufficientSamplingError).
C4_NoSampleNeverReturns ==
    ~(PotalignReturned /\ sitetable.found /\ SampledSites = {})

VqbZeroEverywhere ==
    sitetable.found /\ \A i \in DOMAIN sitetable.recs : RecordVqb(i) = 0

\* C5 as stated: with v_qb = 0 at every record and a record outside the radius
\* the alignment returned is exactly 0.
C5_ZeroVqbGivesZero ==
    (PotalignReturned /\ VqbZeroEverywhere /\ SampledSites # {}) =>
       potalign_v = Num(0)

\* C5: with v_qb = 0 at every record and a record outside the radius the
\* alignment returned is q times the mean Madelung potential over the records
\* outside the radius.
C5_ZeroVqbGivesChargeTimesMeanVpc ==
    (PotalignReturned /\ VqbZeroEverywhere /\ SampledSites # {}) =>
       potalign_v = Num(kc.q * MeanOverSampled([i \in SampledSites |-> RecordVpc(i)]))

C5_Witness ==
    /\ PotalignReturned /\ VqbZeroEverywhere /\ SampledSites # {}
    /\ ~potalign_v.nan /\ potalign_v.v # 0

\* ------------------------------------------------------------------------
\* Properties of anisotropic_pc_energy and anisotropic_madelung_potential
\* ------------------------------------------------------------------------

\* pc() has returned the point-charge energy of the run
PcReturned ==
    /\ "pc" \in calls
    /\ cpc \in {"pc_done", "pa_marked", "pa_pots", "pa_done", "done"}

\* anisotropic_pc_energy of the run's structure, tensor, gamma, tolerance and
\* grid for the charge q
PcEnergyOfCharge(q) ==
    anisotropic_pc_energy(kc.structure, kc.g_sum, kc.dieltens, q, kc.gamma,
                          kc.madetol)

\* C6 as stated: the point-charge energy is odd in the charge,
\* anisotropic_pc_energy(q) = -anisotropic_pc_energy(-q) for q != 0.
C6_PcEnergyOddInCharge ==
    (PcReturned /\ kc.q # 0) =>
       /\ PcEnergyOfCharge(-kc.q).err = ""
       /\ energy_pc = Num(-PcEnergyOfCharge(-kc.q).v)

\* C6: the point-charge energy is even in the charge,
\* anisotropic_pc_energy(q) = anisotropic_pc_energy(-q) for q != 0.
C6_PcEnergyEvenInCharge ==
    (PcReturned /\ kc.q # 0) =>
       /\ PcEnergyOfCharge(-kc.q).err = ""
       /\ energy_pc = Num(PcEnergyOfCharge(-kc.q).v)

C6_Witness == PcReturned /\ kc.q # 0 /\ energy_pc.v # 0

\* the terms of the two sums, in hartree, for the run's inputs
RealTerm(r) ==
    real_sum(kumagai_init(kc.structure, kc.dieltens).bohrset[1],
             kumagai_init(kc.structure, kc.dieltens).bohrset[2],
             kumagai_init(kc.structure, kc.dieltens).bohrset[3],
             r, kc.q, kc.dieltens, kc.gamma, kc.madetol).v

ReciprocalTerm(ind) == FMul(FInt(kc.q), kc.g_sum[ind])

SelfTerm ==
    FDiv(FMul(FInt(kc.q), FPi),
         FMul(kumagai_init(kc.structure, kc.dieltens).vol, FMul(kc.gamma, kc.gamma)))

SurfaceTerm ==
    FDiv(FMul(FMul(FInt(2), kc.gamma), FInt(kc.q)),
         FSqrt(FMul(FPi, Det3(kc.dieltens))))

GammaReturned == bk.optgamma = 0 /\ gpc \in {"recip", "done"} /\ ~self_gamma.none

\* gamma0 multiplied k times by 1.5
RECURSIVE GammaAfter(_, _)
GammaAfter(g0, k) == IF k = 0 THEN g0 ELSE FMul(GammaAfter(g0, k - 1), 1500000)

Gamma0 == FDiv(FInt(5), FCbrt(kumagai_init(bk.structure, bk.epsilon).vol))

\* C8: a gamma returned by find_optimal_gamma is positive and equals
\* gamma0 * 1.5^k with gamma0 = 5/volume^(1/3) and k the number of rejected
\* candidates; each earlier candidate gamma0 * 1.5^j converged to a sum below
\* 1 eV, and the returned one is the first whose sum is at least 1 eV.
C8_ReturnedGammaIsFirstAboveOneEv ==
    GammaReturned =>
       Eval(Gamma0, LAMBDA g0 :
          /\ Len(gammalog) >= 1
          /\ self_gamma.v > 0
          /\ self_gamma.v = GammaAfter(g0, Len(gammalog) - 1)
          /\ \A j \in 1..(Len(gammalog) - 1) :
                /\ gammalog[j].gamma = GammaAfter(g0, j - 1)
                /\ Abs(gammalog[j].ev) < FOne
          /\ gammalog[Len(gammalog)].gamma = self_gamma.v
          /\ Abs(gammalog[Len(gammalog)].ev) >= FOne)

\* a gamma returned after two candidates were rejected
C8_Witness == GammaReturned /\ Len(gammalog) >= 3

\* C9: when the candidate gamma exceeds 50 find_optimal_gamma fails with a
\* GammaSearchExhausted error, and reciprocal_sum is not entered.
C9_GammaAbove50Raises ==
    (bk.optgamma = 0 /\ gamma_l > FInt(50)) =>
       /\ gpc = "raised"
       /\ err = "GammaSearchExhausted"
       /\ "reciprocal_sum" \notin calls

\* C10: the sums are evaluated at cutoffs 20, 30, 40, ... and no gamma is
\* accepted from a sum evaluated at a cutoff above energy_cutoff.
C10_NoGammaFromSumAboveCutoff ==
    /\ \A i \in 1..Len(recipcalls) : recipcalls[i] = 20 + 10 * (i - 1)
    /\ GammaReturned => encut_l <= bk.encut

\* find_optimal_gamma has returned or raised
GammaSearchEnded == gpc \in {"recip", "done", "raised"}

\* C11: find_optimal_gamma always terminates: the loop over cutoffs runs only
\* while the cutoff has not passed energy_cutoff (30 is the first cutoff it
\* runs at), and the loop over candidates only while gamma has not passed 50.
C11_GammaSearchTerminates ==
    /\ <>GammaSearchEnded
    /\ [](gpc = "converging" => (encut_l = 30 \/ encut_l <= bk.encut))
    /\ [](gpc \in {"candidate", "converging"} => gamma_l <= FInt(50))

\* a search that ended after the cutoff loop ran and candidates were escalated
C11_Witness ==
    /\ GammaSearchEnded /\ bk.optgamma = 0
    /\ Len(gammalog) >= 2 /\ Len(recipcalls) >= 3

\* ------------------------------------------------------------------------
\* Errors of the lattice sum and of the site mapping
\* ------------------------------------------------------------------------

\* real_sum of the run at the displacement r reaches the maximum shell size
\* without two successive sums within the tolerance
RealSumExhausted(r) ==
    real_sum(kumagai_init(kc.structure, kc.dieltens).bohrset[1],
             kumagai_init(kc.structure, kc.dieltens).bohrset[2],
             kumagai_init(kc.structure, kc.dieltens).bohrset[3],
             r, kc.q, kc.dieltens, kc.gamma, kc.madetol).none

\* C12: when real_sum reaches the maximum shell size without converging, the
\* caller gets a ConvergenceError; here for the sum of pc(), at the defect.
C12_UnconvergedRealSumRaisesConvergenceError ==
    ("pc" \in calls /\ RealSumExhausted(ZeroVec)) =>
       (cpc = "raised" /\ err = "ConvergenceError")

\* C13: when find_defect_pos finds neither a bulk site nor a defect site, the
\* site mapping fails with a DefectNotFoundError and potalign() does not go
\* on without a site table.
C13_NoDefectRaisesDefectNotFound ==
    ("disttrans" \in calls /\ ~sitetable.found) =>
       (cpc = "raised" /\ err = "DefectNotFoundError")

\* ------------------------------------------------------------------------
\* Properties of disttrans
\* ------------------------------------------------------------------------

\* the displacement of the site at dcart_coord from the image of the defect
\* translated by i, j, k lattice vectors
ImageDisp(i, j, k) ==
    VecSub(dcart_coord,
           VecAdd(defcell_def_ccoord, TransVec(defstruct.lattice, i, j, k)))

\* the translation i, j, k comes before i2, j2, k2 in the loops of returnclosestr
LoopsBefore(i, j, k, i2, j2, k2) ==
    \/ i < i2
    \/ i = i2 /\ j < j2
    \/ i = i2 /\ j = j2 /\ k < k2

\* returnclosestr has been called for a site
ImageTaken == dpc \in {"loop", "returned"} /\ closeimage # NoImage

\* the 27 displacements and their norms
Images27 ==
    [t \in (-1..1) \X (-1..1) \X (-1..1) |->
       Eval(ImageDisp(t[1], t[2], t[3]), LAMBDA d : [rnew |-> d, dist |-> Norm(d)])]

\* C14: returnclosestr returns the displacement site - (defect + translation),
\* its norm and the translation, for the translation i*a + j*b + k*c with i,
\* j, k in {-1, 0, 1} of minimum norm: the distance is <= that to each of the
\* 27 images and, among equal minima, it is the first one in the order of the
\* loops (i, then j, then k, ascending).
C14_ClosestOf27Images ==
    ImageTaken =>
       Eval(Images27, LAMBDA im :
            /\ \E t \in DOMAIN im :
                  /\ closeimage.transvec = TransVec(defstruct.lattice, t[1], t[2], t[3])
                  /\ closeimage.rnew = im[t].rnew
                  /\ closeimage.dist = im[t].dist
                  /\ \A u \in DOMAIN im :
                        Eval(im[u].dist, LAMBDA d :
                             /\ closeimage.dist <= d
                             /\ LoopsBefore(u[1], u[2], u[3], t[1], t[2], t[3]) =>
                                   closeimage.dist < d))

\* a site with two nearest images of the defect, one of them translated
C14_Witness ==
    /\ ImageTaken
    /\ closeimage.transvec # ZeroVec
    /\ \E t \in (-1..1) \X (-1..1) \X (-1..1) :
          /\ TransVec(defstruct.lattice, t[1], t[2], t[3]) # closeimage.transvec
          /\ Norm(ImageDisp(t[1], t[2], t[3])) = closeimage.dist

\* the defect cell is the bulk without its site v, and find_defect_pos
\* reports that site
VacancyAt(v) ==
    /\ v \in DOMAIN struct.sites
    /\ defstruct.sites = RemoveAt(struct.sites, v)
    /\ found_pos = [blk |-> SomeSite(struct.sites[v].coords), def |-> NoSite]

\* C15 as stated: for a vacancy the defect location is the deleted site's
\* coordinates, and the table has a record at that position with distance 0.
C15_VacancyRecordAtDistanceZero ==
    \A v \in DOMAIN struct.sites :
       (VacancyAt(v) /\ dpc = "returned") =>
          /\ def_ccoord = struct.sites[v].coords
          /\ \E k \in DOMAIN grid_sites :
                grid_sites[k].cart = def_ccoord /\ grid_sites[k].dist = 0

\* the sites of the bulk the loop has passed
SitesPassed == {n \in DOMAIN struct.sites : n < site_i}

\* C15: for a vacancy the defect location is the deleted site's coordinates
\* in both cells; that site is skipped, every other site of the bulk gets a
\* record, and no record lies at the defect's position or at distance 0.
C15_VacancyLocatedAndSkipped ==
    \A v \in DOMAIN struct.sites :
       (VacancyAt(v) /\ dpc \in {"loop", "returned"}) =>
          /\ def_ccoord = struct.sites[v].coords
          /\ defcell_def_ccoord = struct.sites[v].coords
          /\ \A k \in DOMAIN grid_sites :
                /\ grid_sites[k].cart # def_ccoord
                /\ grid_sites[k].dist > 0
                /\ grid_sites[k].siteobj # struct.sites[v]
          /\ \A n \in SitesPassed \ {v} :
                \E k \in DOMAIN grid_sites : grid_sites[k].siteobj = struct.sites[n]

C15_Witness ==
    /\ dpc = "returned"
    /\ VacancyAt(2)
    /\ DOMAIN grid_sites = {0}

\* ------------------------------------------------------------------------
\* Properties of the grid lookup
\* ------------------------------------------------------------------------

\* the grid handed to the run has the dimensions the run looks indices up with
ShapesAgree == DOMAIN kc.g_sum = IndicesOf(kc.dim)

\* the periodic distance of the fractional coordinate f from grid point n of
\* N, in units of 1/N of the cell
PeriodicDistance(f, n, N) ==
    Eval(Abs((f % FOne) * N - n * FOne), LAMBDA d :
         IF d <= N * FOne - d THEN d ELSE N * FOne - d)

\* the indices 0..N-1 of the grid points nearest to f under periodic distance
PeriodicNearest(f, N) ==
    {n \in 0..(N - 1) :
       \A m \in 0..(N - 1) : PeriodicDistance(f, n, N) <= PeriodicDistance(f, m, N)}

\* the fractional coordinates of the displacement of record i
RecordFrac(i) == get_fractional_coords(kc.structure, potinddict[i].cart_reldef)

\* C16: for every fractional coordinate and every triple of positive grid
\* dimensions getgridind returns, per axis, the index in 0..dim-1 of the grid
\* point nearest to the coordinate under periodic distance, and the reciprocal
\* term of the Madelung potential is q times the grid value at that index.
C16_GridIndexIsPeriodicNearest ==
    ShapesAgree =>
       /\ err \notin {"IndexError", "ValueError"}
       /\ \A i \in DOMAIN potinddict :
             potinddict[i].has_v =>
                \E ind \in PeriodicNearest(RecordFrac(i)[1], kc.dim[1])
                             \X PeriodicNearest(RecordFrac(i)[2], kc.dim[2])
                             \X PeriodicNearest(RecordFrac(i)[3], kc.dim[3]) :
                   potinddict[i].Vpc =
                      FMul(hart_to_ev,
                           RealTerm(potinddict[i].cart_reldef) + ReciprocalTerm(ind)
                             - SelfTerm)

\* C19: when the shape of the reciprocal grid differs from the declared grid
\* dimensions, the correction fails with an InputShapeError and reads no grid
\* element.
C19_ShapeMismatchRaises ==
    (~ShapesAgree /\ kc.q # 0) =>
       /\ ~PcReturned
       /\ \A i \in DOMAIN potinddict : ~potinddict[i].has_v
       /\ cpc \in {"done", "raised"} => err = "InputShapeError"

\* the Madelung potential of the run at the displacement r
MadelungAt(r) ==
    anisotropic_madelung_potential(kc.structure, kc.dim, kc.g_sum, r, kc.dieltens,
                                   kc.q, kc.gamma, kc.madetol)

\* C20: with a diagonal dielectric tensor, anisotropic_madelung_potential
\* gives the same value at a displacement r and at -r.
C20_MadelungEvenInDisplacement ==
    ShapesAgree =>
       \A i \in DOMAIN potinddict :
          potinddict[i].has_v =>
             /\ MadelungAt(VecSub(ZeroVec, potinddict[i].cart_reldef)).err = ""
             /\ potinddict[i].Vpc =
                   MadelungAt(VecSub(ZeroVec, potinddict[i].cart_reldef)).v

\* a grid that holds v at [0,0,0] and nothing anywhere else
OriginOnly(v) == [g \in IndicesOf(GridDim) |-> IF g = <<0, 0, 0>> THEN v ELSE 0]

\* a correction() is under way or has ended on the grid of the bulk
GridInUse == ncorr > 0

\* C17: the reciprocal grid is built once, by the KumagaiBulkInit constructor
\* after gamma is fixed; no sequence of correction(), pc() and potalign()
\* calls, for any charge, builds it again or changes it; and get_g_sum_at_r
\* at zero displacement returns the element g_sum[0,0,0] that
\* anisotropic_pc_energy takes for its reciprocal term.
C17_GridBuiltOnceAndShared ==
    /\ [](self_g_sum = "built" => (gpc = "done" /\ ~self_gamma.none))
    /\ [][("reciprocal_sum" \in calls' /\ "reciprocal_sum" \notin calls)
             => (gpc = "recip" /\ self_g_sum = "unset")]_vars
    /\ [][self_g_sum = "built"
             => (self_g_sum' = "built" /\ self_gamma' = self_gamma)]_vars
    /\ [](GridInUse => (self_g_sum = "built" /\ kc.g_sum = BuiltGrid
                          /\ kc.gamma = self_gamma.v))
    /\ [](g_at_origin # NoQuery => g_at_origin = [err |-> "", v |-> kc.g_sum[<<0, 0, 0>>]])
    /\ []((GridInUse /\ PcReturned /\ g_at_origin # NoQuery) =>
             energy_pc = Num(anisotropic_pc_energy(kc.structure, OriginOnly(g_at_origin.v),
                                                   kc.dieltens, kc.q, kc.gamma,
                                                   kc.madetol).v))

\* the second correction() on the same grid has returned its point-charge
\* energy and the grid has been queried at zero displacement
C17_Witness ==
    /\ ncorr = MaxCalls
    /\ PcReturned
    /\ cpc = "done"
    /\ kc.q # 0
    /\ g_at_origin # NoQuery
    /\ self_g_sum = "built"

\* what a computation makes of the 3x3 matrix that diel_in stands for
MatrixOutcome(name) ==
    LET m  == [ndim |-> 2, a |-> Flat(DieltensOfKumagaiInit(diel_in))]
        ki == kumagai_init(kc.structure, Rows(m.a))
    IN  CASE name \in {"gamma_search", "reciprocal_sum"} ->
               [rec |-> diel_out[name].rec, out |-> Gdotdiel(m, diel_out[name].rec)]
          [] name = "real_sum" ->
               RealSumOfTensor(ki.bohrset[1], ki.bohrset[2], ki.bohrset[3], ZeroVec, kc.q,
                               m, kc.gamma, kc.madetol)
          [] name = "pc" ->
               PcEnergyOfTensor(kc.structure, kc.g_sum, m, kc.q, kc.gamma, kc.madetol)
          [] OTHER ->
               MadelungOfTensor(kc.structure, kc.dim, kc.g_sum, DispOut2, m, kc.q,
                                kc.gamma, kc.madetol)

\* C18 as stated: a dielectric tensor given as a number, as a list of three
\* numbers or as a 3x3 matrix is accepted by the gamma search, the grid build,
\* the real-space sum, the point-charge energy and the Madelung potential, and
\* each gives what it gives for the equivalent 3x3 matrix.
C18_EveryTensorFormAccepted ==
    \A name \in DOMAIN diel_out :
       /\ (IF name \in {"gamma_search", "reciprocal_sum"}
           THEN diel_out[name].out.err ELSE diel_out[name].err) = ""
       /\ diel_out[name] = MatrixOutcome(name)

\* the second construction has its gamma
SecondGammaSet == earlier.any /\ gpc \in {"recip", "done"}

C21_WitnessGiven ==
    /\ earlier.any
    /\ gpc = "done"
    /\ Len(earlier.log) >= 2
    /\ bk.optgamma = earlier.gamma.v

\* the array positions of a grid
Positions(dim) == {<<x, y, z>> : x \in 0..(dim[1] - 1), y \in 0..(dim[2] - 1),
                                 z \in 0..(dim[3] - 1)}

\* the multiple the claim gives an index: itself up to half the dimension,
\* index - dimension above
HalfRule(x, n) == IF 2 * x <= n THEN x ELSE x - n

\* C23 as stated: when reciprocal_sum has passed through its loops, every
\* position of the array other than the origin has been written exactly
\* once, for the multiple that is the index itself up to half the grid
\* dimension and index - dimension above it; the origin has not been written.
C23_EachPositionOnceWithSignedMultiple ==
    rs.returned =>
       /\ DOMAIN rs.writes = Positions(rs.dim) \ {<<0, 0, 0>>}
       /\ \A pos \in DOMAIN rs.writes :
             /\ rs.writes[pos] = 1
             /\ rs.mult[pos] = << HalfRule(pos[1], rs.dim[1]), HalfRule(pos[2], rs.dim[2]),
                                  HalfRule(pos[3], rs.dim[3]) >>

\* C24 as stated: every term of the real-space sum is erfc(gamma * r_D) / r_D
\* with r_D = sqrt(v . D^-1 . v): its denominator is the r_D whose multiple
\* by gamma is the argument of erfc, at zero and at nonzero displacement and
\* for every dielectric tensor.
C24_TermDenominatorIsMetricDistance ==
    (sh.N > 0 /\ sh.last # NoTerm) =>
       /\ sh.last.erfc_of = FMul(sh.gamma, FSqrt(sh.last.loc_res))
       /\ sh.last.dmr = FSqrt(sh.last.loc_res)

CallShellSum(N) ==
    LET ki == kumagai_init(rcall.structure, rcall.dieltens)
    IN  FMul(FDiv(FInt(rcall.q), FSqrt(Det3(rcall.dieltens))),
             ShellSums(ki.bohrset[1], ki.bohrset[2], ki.bohrset[3], rcall.r,
                       rcall.dieltens, rcall.gamma)[N])

\* the sums for the shell sizes N - 1 and N agree within the tolerance
CallShellsAgree(N) ==
    Abs(Abs(CallShellSum(N)) - Abs(CallShellSum(N - 1))) < FDiv(rcall.tolerance, hart_to_ev)

\* C26: real_sum ends within 38 shell evaluations (N = 2..39); it returns a
\* sum only for a shell size from 5 to 38, the first one that agrees with the
\* one before it; and a call that reaches N = 39 returns nothing, whether or
\* not the sums for 38 and 39 agree.
C26_RealSumShellBudget ==
    rcall.called =>
       /\ rcall.out.N \in 2..39
       /\ ~rcall.out.none =>
             /\ rcall.out.N \in 5..38
             /\ rcall.out.v = CallShellSum(rcall.out.N)
             /\ CallShellsAgree(rcall.out.N)
             /\ \A M \in 5..(rcall.out.N - 1) : ~CallShellsAgree(M)
       /\ rcall.out.none =>
             /\ rcall.out.N = 39
             /\ \A M \in 5..38 : ~CallShellsAgree(M)

\* a call has reached N = 39 with the sums for 38 and 39 in agreement and
\* returned nothing
C26_Witness ==
    /\ rcall.called
    /\ rcall.out.none
    /\ CallShellsAgree(39)

\* the point-charge energy of a simple cubic lattice of edge L (bohr) in an
\* isotropic medium: q^2 alpha / (2 eps L) with the Madelung constant alpha =
\* 2.837297, in eV
IsoClosedForm ==
    LET L   == kumagai_init(iso.structure, iso.dieltens).bohrset[1][1]
        eps == iso.dieltens[1][1]
    IN  FMul(hart_to_ev, FDiv(FMul(FInt(iso.q * iso.q), 2837297), 2 * FMul(eps, L)))

\* C22 as stated: for a cubic lattice and an isotropic dielectric tensor the
\* anisotropic point-charge energy is the isotropic Ewald energy of the
\* closed-form Madelung constant, here to one part in a hundred.
C22_IsotropicMatchesClosedForm ==
    iso.stage = "done" => 100 * Abs(iso.energy - IsoClosedForm) <= IsoClosedForm

\* C27: every record of disttrans has dist = norm(cart_reldef), so the test
\* of the image-locater warning (a difference above 0.1) is false for every
\* record, and the loop goes on to the next site after each record.
C27_RecordDistanceIsNormOfDisplacement ==
    /\ \A b \in DOMAIN grid_sites :
          /\ grid_sites[b].dist = Norm(grid_sites[b].cart_reldef)
          /\ ~ImageLocaterIssue(grid_sites[b].cart_reldef, grid_sites[b].dist)
    /\ closeimage # NoImage =>
          /\ ~ImageLocaterIssue(closeimage.rnew, closeimage.dist)
          /\ dpc \in {"loop", "returned"}

\* disttrans has returned a record whose closest image is not the home cell's
C27_Witness ==
    /\ dpc = "returned"
    /\ closeimage # NoImage
    /\ closeimage.transvec # ZeroVec
    /\ \E b \in DOMAIN grid_sites :
          /\ grid_sites[b].dist > 0
          /\ grid_sites[b].cart_reldef = closeimage.rnew

\* the sites of the structure with more sites, the bulk when they tie
LargerSites == IF Len(defstruct.sites) > Len(struct.sites) THEN defstruct.sites
               ELSE struct.sites

\* the sites the loop has been through
IteratedSoFar == IF dpc \in {"loop", "returned"} THEN site_i - 1 ELSE 0

\* C28: disttrans goes through the sites of the larger structure (the bulk
\* unless the defect cell has more sites); no record comes from a site at the
\* defect's position; records are kept by bulk site index, one per index,
\* the later site's record replacing the earlier one's; at the return there
\* are at most (iterated sites - 1) records.
C28_OneRecordPerBulkIndex ==
    /\ [](/\ \A b \in DOMAIN grid_sites :
                /\ b \in 0..(Len(struct.sites) - 1)
                /\ grid_sites[b].bulk_site_index = b
                /\ grid_sites[b].siteobj.coords # def_ccoord
                /\ \E n \in 1..IteratedSoFar : grid_sites[b].siteobj = LargerSites[n]
          /\ dpc = "returned" =>
                /\ IteratedSoFar = Len(LargerSites)
                /\ Cardinality(DOMAIN grid_sites) <= Len(LargerSites) - 1)
    /\ [][DisttransSite =>
            \E b \in DOMAIN grid_sites' :
               /\ grid_sites'[b].siteobj = LargerSites[site_i]
               /\ DOMAIN grid_sites' = DOMAIN grid_sites \cup {b}
               /\ \A o \in DOMAIN grid_sites \ {b} : grid_sites'[o] = grid_sites[o]]_vars

\* an interstitial cell: three sites gone through, one skipped, and the two
\* records fell on the same bulk index, the later one kept
C28_Witness ==
    /\ dpc = "returned"
    /\ Len(defstruct.sites) > Len(struct.sites)
    /\ Cardinality(DOMAIN grid_sites) = 1
    /\ \E b \in DOMAIN grid_sites :
       \E n \in 1..Len(LargerSites) :
          /\ grid_sites[b].siteobj = LargerSites[n]
          /\ \E e \in 1..(n - 1) : LargerSites[e].coords # def_ccoord

\* the shape of a returned value: "list3" for a sequence of three numbers,
\* "scalar" for one number
ShapeOf(res) == IF res.list THEN "list" \o ToString(Len(res.vals)) ELSE "scalar"

C29_WitnessScalar ==
    /\ cpc = "done"
    /\ ~ChargeIsZero(kc.q)
    /\ partflag = "All"
    /\ ShapeOf(result) = "scalar"

\* C30 as stated: getgridind leaves the array r of its caller as it was, with
\* gridavg and without.
C30_CallerCoordinatesUnchanged ==
    gcall.called => gcall.r = gcall.r_before

====
